---- MODULE Spec2Model ----
(***************************************************************************)
(* Verification model of mycelium's orchestration core:                    *)
(*   - the task scheduler (src/queue/mod.rs) with its producers            *)
(*     (src/webhook/handler.rs, src/queue/startup.rs) and its single       *)
(*     background processor (run_queue_processor);                         *)
(*   - the agent loop (src/agent/engine.rs, AgentEngine::run) with the     *)
(*     results of the protocol client and of the tools as its inputs;      *)
(*   - the workspace guard (src/workspace/manager.rs, verify_path) and the *)
(*     file tools that call it (src/agent/tools/*.rs), over a filesystem   *)
(*     of directories, files and symbolic links;                           *)
(*   - the branch-name guard and the git operations that take a branch     *)
(*     name (src/workspace/git.rs);                                        *)
(*   - the two workflows (src/workflow/issue.rs, src/workflow/review.rs)   *)
(*     with the results of the platform, of the workspace manager and of   *)
(*     the agent run as their inputs;                                      *)
(*   - the protocol client's classification of a failed exchange           *)
(*     (src/agent/claude.rs, send_message);                                *)
(*   - the two locks of AppState (src/server.rs: task_queue, cancelled)    *)
(*     and the tasks of the server that take them.                         *)
(* Task payload fields that no scheduler code reads (installation id,      *)
(* clone url, titles, bodies) are not represented; a task is identified by *)
(* its variant, repository and issue/PR number, plus a history stamp `id`  *)
(* (the order of enqueueing) that exists only in the model.                *)
(* Spec and LiveSpec move the scheduler and keep the agent idle; AgentSpec *)
(* moves one run of the agent and keeps the scheduler still; FsSpec runs   *)
(* the file tools on a cloned workspace, GitSpec the git operations,       *)
(* WorkflowSpec one call of a workflow, ClientSpec one call of             *)
(* send_message, LockSpec and LiveLockSpec the lock acquisitions of the    *)
(* server's tasks, everything else standing still.                         *)
(***************************************************************************)
EXTENDS Integers, Sequences, FiniteSets, TLC

\* ---------------------------------------------------------------- bounds
\* Total number of tasks enqueued in one behaviour of Spec.
MaxTasks == 3

\* Repository keys, and the issues and pull requests the incoming events are about.
Repos == {"A", "B"}
Ref(repo, n) == [repo |-> repo, num |-> n]
IssueRefs == {Ref("A", 1), Ref("A", 2), Ref("B", 1)}
PullRefs == {Ref("A", 1)}

\* ------------------------------------------------------------ task values
\* src/queue/task.rs: Task::ResolveIssue { repo_full_name, issue_number, .. }
ResolveIssue(id, repo, n) ==
    [id |-> id, kind |-> "ResolveIssue", repo |-> repo, num |-> n]

\* src/queue/task.rs: Task::RespondToReview { repo_full_name, pr_number, .. }
RespondToReview(id, repo, n) ==
    [id |-> id, kind |-> "RespondToReview", repo |-> repo, num |-> n]

\* Option<Task>::None
NoTask == [id |-> 0, kind |-> "none", repo |-> "none", num |-> 0]

\* src/server.rs: issue_key, "{repo_full_name}#{issue_number}"
issue_key(repo, n) == <<repo, n>>

VARIABLES
    queues,     \* TaskQueue.queues : HashMap<String, VecDeque<Task>>
    iter,       \* iteration order of the keys of TaskQueue.queues
    notify,     \* TaskQueue.notify is Some(tx)
    chan,       \* number of () messages waiting in the unbounded channel
    pc,         \* position of run_queue_processor
    executing,  \* tasks whose workflow has been started and has not returned
    cancelled,  \* the keys of AppState.cancelled
    nextId,     \* history: stamp of the next task to be enqueued
    taken,      \* history: stamps of the tasks returned by take_next, in order
    removed,    \* history: stamps of the tasks removed by cancel_issue
    lastOp      \* history: the cancel_issue call made by the last step, if any,
                \* with the map and the executing tasks it found

queueVars == <<queues, iter, notify, chan, pc, executing, cancelled,
               nextId, taken, removed, lastOp>>

VARIABLES
    max_turns,       \* AgentEngine.max_turns
    rate_limit,      \* AgentEngine.rate_limit
    overflow_checks, \* the build panics on integer overflow (it wraps otherwise)
    is_cancelled,    \* what the is_cancelled callback returns when awaited now
    apc,             \* position of run
    turn,            \* the loop variable of `for turn in 0..self.max_turns`
    retries,         \* the retry counter of the current turn's request
    messages,        \* the conversation
    response,        \* the response whose tool calls are being executed
    block,           \* position in response.content of the next tool call
    tool_results,    \* the tool results collected for the current response
    totals,          \* total_input_tokens, total_output_tokens, ...
    outcome,         \* the AgentOutcome values run has returned
    requests,        \* history: number of calls of send_message
    responses,       \* history: number of responses send_message returned
    sleeps,          \* history: the backoff sleeps, in seconds
    attempts,        \* history: the calls of send_message, each with its turn,
                     \* the kind of its answer and the sleep that followed it
    last_result,     \* history: what the last call of send_message returned
    tool_calls       \* history: the calls of execute_tool, each with its turn
                     \* and the id and name of its tool_use block

agentVars == <<max_turns, rate_limit, overflow_checks, is_cancelled, apc, turn,
               retries, messages, response, block, tool_results, totals,
               outcome, requests, responses, sleeps, attempts, last_result,
               tool_calls>>

VARIABLES
    fs,        \* the filesystem: absolute path (sequence of names) -> node
    fsRuns,    \* history: number of tool executions so far
    fsCall     \* history: the last tool execution, with what the guard said
               \* and the filesystem locations the execution accessed

fsVars == <<fs, fsRuns, fsCall>>

VARIABLES
    git_repo,  \* the clone: local branches, HEAD, remote-tracking branches,
               \* and the branches of origin
    gitCalls,  \* history: number of git operations so far
    gitCall    \* history: the last git operation, with the libgit2 calls it made

gitVars == <<git_repo, gitCalls, gitCall>>

VARIABLES
    wf,              \* the workflow call: resolve_issue (with its mode) or
                     \* respond_to_review
    wpc,             \* position of the workflow
    agent_result,    \* the AgentOutcome engine.run returned to the workflow
    state_cancelled, \* AppState.cancelled: the entry of the workflow's issue
    in_flight,       \* AppState.in_flight holds the workflow's issue
    workspace_dir,   \* the workspace directory of the task on disk
    wf_result,       \* `result`, the value of the match on the agent outcome
    wf_returned,     \* the Result the workflow has returned
    wf_calls,        \* history: the calls the workflow awaited, in order,
                     \* each with whether it succeeded
    stopped_by       \* history: the entry of AppState.cancelled that the
                     \* callback found when the run ended as Cancelled

workflowVars == <<wf, wpc, agent_result, state_cancelled, in_flight,
                  workspace_dir, wf_result, wf_returned, wf_calls, stopped_by>>

VARIABLES
    http,            \* what the HTTP exchange of a send_message call gives:
                     \* whether send() succeeded, the status, the body
    cpc,             \* position of the send_message call
    client_returned  \* the Result send_message has returned

clientVars == <<http, cpc, client_returned>>

\* ---- the locks of AppState (src/server.rs 32-34)
VARIABLES
    lpc,                 \* position of every task of the server at the locks
    task_queue_guard,    \* the task holding the write guard of task_queue
    task_queue_waiters,  \* the tasks waiting in task_queue.write().await, in
                         \* arrival order
    cancelled_guards,    \* the guards of `cancelled` held: task and mode
    cancelled_waiters    \* the accesses waiting on `cancelled`, in arrival order

lockVars == <<lpc, task_queue_guard, task_queue_waiters, cancelled_guards,
              cancelled_waiters>>

workspaceVars == <<fsVars, gitVars, workflowVars, clientVars, lockVars>>

vars == <<queueVars, agentVars, workspaceVars>>

\* ------------------------------------------------------- helper operators
Min(S) == CHOOSE x \in S : \A y \in S : x <= y

\* All orders in which a HashMap holding the keys S may iterate.
IterOrders(S) ==
    {s \in [1..Cardinality(S) -> S] : \A k \in S : \E j \in 1..Cardinality(S) : s[j] = k}

\* HashMap::remove on the key set: the other keys keep their relative order.
WithoutKey(it, k) == SelectSeq(it, LAMBDA x : x # k)

\* Iteration orders after inserting the new key k: std's HashMap gives no
\* guarantee on where a new key lands (and may rehash), so any order of the
\* new key set is possible.
OrdersAfterInsert(it, k) == IterOrders({it[j] : j \in 1..Len(it)} \cup {k})

\* ------------------------------------------------------------- TaskQueue
\* (mutation of PushBack: the task is pushed at the front of the sequence)
PushFront(q, repo, task) ==
    IF repo \in DOMAIN q
    THEN [q EXCEPT ![repo] = <<task>> \o @]
    ELSE [k \in DOMAIN q \cup {repo} |-> IF k = repo THEN <<task>> ELSE q[k]]

\* enqueue, the map part: entry(repo).or_default().push_back(task)
PushBack(q, repo, task) ==
    IF repo \in DOMAIN q
    THEN [q EXCEPT ![repo] = Append(@, task)]
    ELSE [k \in DOMAIN q \cup {repo} |-> IF k = repo THEN <<task>> ELSE q[k]]

\* enqueue, the notification part: if let Some(tx) = notify { tx.send(()) }
NotifyAfterEnqueue(n, c) == IF n THEN c + 1 ELSE c

\* (mutation of RetainTask: the variant of the task is not looked at)
RetainAnyKind(task, n) == task.num # n

\* (mutation of RetainTask: the predicate is inverted)
RetainOnlyMatching(task, n) == task.kind = "ResolveIssue" /\ task.num = n

\* the predicate of queue.retain in cancel_issue
RetainTask(task, n) == ~(task.kind = "ResolveIssue" /\ task.num = n)

\* TaskQueue::cancel_issue
cancel_issue(q, repo, n) ==
    IF repo \in DOMAIN q
    THEN [q EXCEPT ![repo] = SelectSeq(@, LAMBDA t : RetainTask(t, n))]
    ELSE q

NoRepo == "none"

\* (mutation of FindRepo: only the first key of the map is looked at)
FindRepoFirstKey(q, it) ==
    IF it = <<>> \/ q[it[1]] = <<>> THEN NoRepo ELSE it[1]

\* take_next: queues.iter().find(|(_, q)| !q.is_empty()).map(|(k, _)| k)
FindRepo(q, it) ==
    LET idx == {j \in 1..Len(it) : q[it[j]] # <<>>}
    IN  IF idx = {} THEN NoRepo ELSE it[Min(idx)]

\* (mutation of PopFront: take_next leaves the task it returns in its queue)
PopFrontKept(s) == s

\* take_next: q.pop_front()
PopFront(s) == Tail(s)
Front(s) == Head(s)

\* take_next: the value returned
take_next_result(q, it) ==
    LET repo == FindRepo(q, it)
    IN  IF repo = NoRepo THEN NoTask ELSE Front(q[repo])

\* take_next: the map after the call (pop, then remove the key if empty)
take_next_queues(q, it) ==
    LET repo == FindRepo(q, it)
    IN  IF repo = NoRepo THEN q
        ELSE LET popped == [q EXCEPT ![repo] = PopFront(@)]
             IN  IF popped[repo] = <<>>
                 THEN [k \in DOMAIN q \ {repo} |-> popped[k]]
                 ELSE popped

\* take_next: the iteration order after the call
take_next_iter(q, it) ==
    LET repo == FindRepo(q, it)
    IN  IF repo # NoRepo /\ PopFront(q[repo]) = <<>> THEN WithoutKey(it, repo) ELSE it

\* --------------------------------------------------------------- history
\* a call of cancel_issue, with the map and the executing tasks it found
Op(op, repo, n, q, ex) ==
    [op |-> op, repo |-> repo, num |-> n, queues |-> q, executing |-> ex]
NoOp == Op("none", "none", 0, <<>>, {})

SeqSet(s) == {s[j] : j \in 1..Len(s)}
\* the tasks held in the map
Pending(q) == UNION {SeqSet(q[k]) : k \in DOMAIN q}

\* --------------------------------------------------------------- actions
\* TaskQueue::enqueue(repo, task), called under the task_queue write lock.
enqueue(task) ==
    /\ queues' = PushBack(queues, task.repo, task)
    /\ iter' \in (IF task.repo \in DOMAIN queues THEN {iter}
                  ELSE OrdersAfterInsert(iter, task.repo))
    /\ chan' = NotifyAfterEnqueue(notify, chan)

\* A producer enqueues the task; the history stamps it.
Enqueue(task) ==
    /\ nextId <= MaxTasks
    /\ enqueue(task)
    /\ nextId' = nextId + 1
    /\ lastOp' = NoOp
    /\ UNCHANGED <<notify, pc, executing, cancelled, taken, removed>>
    /\ UNCHANGED <<agentVars, workspaceVars>>

\* ---- src/webhook/handler.rs
\* Webhook events, reduced to the fields the handlers test.  Each set holds,
\* for every issue or pull request, an event that reaches each queue operation
\* of the handler, and one event for each other path through the handler.
IssuesEv(action, label, ref, pr, inst) ==
    [action |-> action, label |-> label, repo |-> ref.repo, num |-> ref.num,
     pull_request |-> pr, installation |-> inst]

IssuesEvents ==
    {IssuesEv("closed", "none", k, FALSE, TRUE) : k \in IssueRefs}
    \cup {IssuesEv("labeled", "trigger", k, FALSE, TRUE) : k \in IssueRefs}
    \cup {IssuesEv("unlabeled", "trigger", Ref("A", 1), FALSE, TRUE),
          IssuesEv("unlabeled", "research", Ref("A", 1), FALSE, TRUE),
          IssuesEv("labeled", "research", Ref("A", 1), FALSE, TRUE),
          IssuesEv("unlabeled", "other", Ref("A", 1), FALSE, TRUE),
          IssuesEv("opened", "none", Ref("A", 1), FALSE, TRUE),
          IssuesEv("labeled", "none", Ref("A", 1), FALSE, TRUE),
          IssuesEv("labeled", "other", Ref("A", 1), FALSE, TRUE),
          IssuesEv("labeled", "trigger", Ref("A", 1), TRUE, TRUE),
          IssuesEv("labeled", "trigger", Ref("A", 1), FALSE, FALSE)}

\* handle_issues_event: the condition under which the event cancels work
IssuesEventCancels(ev) ==
    /\ ev.action = "closed" \/ ev.action = "unlabeled"
    /\ ev.action = "closed" \/ ev.label = "trigger" \/ ev.label = "research"

\* handle_issues_event: the condition under which the event enqueues a task
IssuesEventEnqueues(ev) ==
    /\ ~(ev.action = "closed" \/ ev.action = "unlabeled")
    /\ ev.action = "labeled"
    /\ ev.label = "research" \/ ev.label = "trigger"
    /\ ~ev.pull_request
    /\ ev.installation

\* AppState::cancel_issue: cancelled.insert(key, ..)
MapInsert(m, key) == m \cup {key}
\* AppState::clear_cancellation: cancelled.remove(&key)
MapRemove(m, key) == m \ {key}

\* handle_issues_event, closed / unlabeled branch: under the task_queue write
\* lock, queue.cancel_issue and then state.cancel_issue.
CancelIssue(ev) ==
    /\ queues' = cancel_issue(queues, ev.repo, ev.num)
    /\ cancelled' = MapInsert(cancelled, issue_key(ev.repo, ev.num))
    /\ removed' = removed \cup {t.id : t \in Pending(queues) \ Pending(queues')}
    /\ lastOp' = Op("cancel_issue", ev.repo, ev.num, queues, executing)
    /\ UNCHANGED <<iter, notify, chan, pc, executing, nextId, taken>>
    /\ UNCHANGED <<agentVars, workspaceVars>>

\* A handler returns without touching the shared state: some event of the
\* set takes one of the handler's early returns.
Skip(ignored) == ignored # {} /\ UNCHANGED vars

\* the events by the path they take through handle_issues_event
IssuesCancelEvents == {ev \in IssuesEvents : IssuesEventCancels(ev)}
IssuesEnqueueEvents == {ev \in IssuesEvents : IssuesEventEnqueues(ev)}
IssuesIgnoredEvents == IssuesEvents \ (IssuesCancelEvents \cup IssuesEnqueueEvents)

HandleIssuesEvent ==
    \/ \E ev \in IssuesCancelEvents : CancelIssue(ev)
    \/ \E ev \in IssuesEnqueueEvents : Enqueue(ResolveIssue(nextId, ev.repo, ev.num))
    \/ Skip(IssuesIgnoredEvents)

CommentEv(action, bot, inst, ref, isPr, pr, labels) ==
    [action |-> action, bot |-> bot, installation |-> inst, repo |-> ref.repo,
     num |-> ref.num, pull_request |-> isPr, pr |-> pr, labels |-> labels]

IssueCommentEvents ==
    {CommentEv("created", FALSE, TRUE, k, TRUE, "mycelium", "none") : k \in PullRefs}
    \cup {CommentEv("created", FALSE, TRUE, k, FALSE, "none", "trigger") : k \in IssueRefs}
    \cup {CommentEv("created", FALSE, TRUE, Ref("A", 1), FALSE, "none", "research"),
          CommentEv("edited", FALSE, TRUE, Ref("A", 1), FALSE, "none", "trigger"),
          CommentEv("created", TRUE, TRUE, Ref("A", 1), FALSE, "none", "trigger"),
          CommentEv("created", FALSE, FALSE, Ref("A", 1), FALSE, "none", "trigger"),
          CommentEv("created", FALSE, TRUE, Ref("A", 1), TRUE, "error", "none"),
          CommentEv("created", FALSE, TRUE, Ref("A", 1), TRUE, "other", "none"),
          CommentEv("created", FALSE, TRUE, Ref("A", 1), FALSE, "none", "none"),
          CommentEv("created", FALSE, TRUE, Ref("A", 1), FALSE, "none", "both")}

\* handle_issue_comment_event: the task it enqueues, NoTask if it returns early
IssueCommentTask(ev, id) ==
    IF ev.action # "created" \/ ev.bot \/ ~ev.installation THEN NoTask
    ELSE IF ev.pull_request
         THEN IF ev.pr = "mycelium" THEN RespondToReview(id, ev.repo, ev.num) ELSE NoTask
         ELSE IF ev.labels \in {"research", "both", "trigger"}
              THEN ResolveIssue(id, ev.repo, ev.num)
              ELSE NoTask

\* the events by the path they take through handle_issue_comment_event
CommentEnqueueEvents == {ev \in IssueCommentEvents : IssueCommentTask(ev, 0) # NoTask}
CommentIgnoredEvents == IssueCommentEvents \ CommentEnqueueEvents

HandleIssueCommentEvent ==
    \/ \E ev \in CommentEnqueueEvents : Enqueue(IssueCommentTask(ev, nextId))
    \/ Skip(CommentIgnoredEvents)

ReviewEv(action, state, inst, ref) ==
    [action |-> action, state |-> state, installation |-> inst,
     repo |-> ref.repo, num |-> ref.num]

PrReviewEvents ==
    {ReviewEv("submitted", "changes_requested", TRUE, k) : k \in PullRefs}
    \cup {ReviewEv("dismissed", "changes_requested", TRUE, Ref("A", 1)),
          ReviewEv("submitted", "approved", TRUE, Ref("A", 1)),
          ReviewEv("submitted", "changes_requested", FALSE, Ref("A", 1))}

\* handle_pr_review_event: the condition under which the event enqueues a task
PrReviewEnqueues(ev) ==
    ev.action = "submitted" /\ ev.state = "changes_requested" /\ ev.installation

PrReviewEnqueueEvents == {ev \in PrReviewEvents : PrReviewEnqueues(ev)}

HandlePrReviewEvent ==
    \/ \E ev \in PrReviewEnqueueEvents : Enqueue(RespondToReview(nextId, ev.repo, ev.num))
    \/ Skip(PrReviewEvents \ PrReviewEnqueueEvents)

ReviewCommentEv(action, bot, mycelium, inst, ref) ==
    [action |-> action, bot |-> bot, mycelium |-> mycelium, installation |-> inst,
     repo |-> ref.repo, num |-> ref.num]

PrReviewCommentEvents ==
    {ReviewCommentEv("created", FALSE, TRUE, TRUE, k) : k \in PullRefs}
    \cup {ReviewCommentEv("deleted", FALSE, TRUE, TRUE, Ref("A", 1)),
          ReviewCommentEv("created", TRUE, TRUE, TRUE, Ref("A", 1)),
          ReviewCommentEv("created", FALSE, FALSE, TRUE, Ref("A", 1)),
          ReviewCommentEv("created", FALSE, TRUE, FALSE, Ref("A", 1))}

\* handle_pr_review_comment_event: the condition under which the event
\* enqueues a task
PrReviewCommentEnqueues(ev) ==
    ev.action = "created" /\ ~ev.bot /\ ev.mycelium /\ ev.installation

PrReviewCommentEnqueueEvents ==
    {ev \in PrReviewCommentEvents : PrReviewCommentEnqueues(ev)}

HandlePrReviewCommentEvent ==
    \/ \E ev \in PrReviewCommentEnqueueEvents :
          Enqueue(RespondToReview(nextId, ev.repo, ev.num))
    \/ Skip(PrReviewCommentEvents \ PrReviewCommentEnqueueEvents)

\* ---- src/queue/startup.rs
\* scan_pending_issues: one iteration of a `for issue in issues` loop that
\* reaches queue.enqueue.  The installations, repositories and issues are what
\* the platform lists, so any repository and issue number may come next.
ScanEnqueue ==
    \E k \in IssueRefs : Enqueue(ResolveIssue(nextId, k.repo, k.num))

\* ---- src/queue/mod.rs: run_queue_processor
\* lines 88-93: create the channel and install the sender
SetNotifier ==
    /\ pc = "start"
    /\ notify' = TRUE
    /\ pc' = "recv"
    /\ lastOp' = NoOp
    /\ UNCHANGED <<queues, iter, chan, executing, cancelled,
                   nextId, taken, removed>>
    /\ UNCHANGED <<agentVars, workspaceVars>>

\* line 99: rx.recv().await
Recv ==
    /\ pc = "recv"
    /\ chan > 0
    /\ chan' = chan - 1
    /\ pc' = "take"
    /\ lastOp' = NoOp
    /\ UNCHANGED <<queues, iter, notify, executing, cancelled,
                   nextId, taken, removed>>
    /\ UNCHANGED <<agentVars, workspaceVars>>

\* (mutation of AfterTake: the workflow is spawned and not awaited)
AfterTakeDetached == "take"

\* The processor's position after take_next returned Some(task): it awaits the
\* task's workflow (lines 126-137, 164-173).
AfterTake == "exec"

\* lines 103-111: take_next under the write lock; None leaves the drain loop,
\* Some(task) starts the task's workflow.
DrainStep ==
    /\ pc = "take"
    /\ LET task == take_next_result(queues, iter)
       IN  /\ queues' = take_next_queues(queues, iter)
           /\ iter' = take_next_iter(queues, iter)
           /\ IF task = NoTask
              THEN pc' = "recv" /\ UNCHANGED executing
              ELSE pc' = AfterTake /\ executing' = executing \cup {task}

\* The processor's drain step; the history records the task returned.
TakeNext ==
    /\ DrainStep
    /\ taken' = (IF take_next_result(queues, iter) = NoTask THEN taken
                 ELSE Append(taken, take_next_result(queues, iter).id))
    /\ lastOp' = NoOp
    /\ UNCHANGED <<notify, chan, cancelled, nextId, removed>>
    /\ UNCHANGED <<agentVars, workspaceVars>>

\* The workflow of the running task returns (Ok or Err).  resolve_issue clears
\* the issue's cancellation flag after the agent run (workflow/issue.rs:109);
\* it does not get there when get_issue, get_access_token or the workspace
\* setup fails first (lines 42-61).  respond_to_review never touches the flag.
WorkflowReturn ==
    /\ pc = "exec"
    /\ \E task \in executing, reachedAgent \in BOOLEAN :
          /\ executing' = executing \ {task}
          /\ cancelled' = IF task.kind = "ResolveIssue" /\ reachedAgent
                          THEN MapRemove(cancelled, issue_key(task.repo, task.num))
                          ELSE cancelled
    /\ lastOp' = NoOp
    /\ pc' = "take"
    /\ UNCHANGED <<queues, iter, notify, chan, nextId, taken, removed>>
    /\ UNCHANGED <<agentVars, workspaceVars>>

\* ------------------------------------------------------------------------
\* The scheduler under a never-ending stream of work.  The processor has
\* installed its notifier and waits; producers keep enqueuing as long as a
\* repository holds fewer than MaxPending tasks.  No history is kept (tasks
\* carry the stamp 0), and the count of waiting notifications saturates at
\* MaxNotes: the processor only tests whether one is waiting.
MaxPending == 2
MaxNotes == 2

LiveTasks ==
    {ResolveIssue(0, k.repo, k.num) : k \in {Ref("A", 1), Ref("B", 1)}}
    \cup {RespondToReview(0, "A", 1)}

QueueLen(q, repo) == IF repo \in DOMAIN q THEN Len(q[repo]) ELSE 0

\* A webhook handler or the startup scan enqueues a task.
LiveEnqueue ==
    /\ \E task \in LiveTasks :
          /\ QueueLen(queues, task.repo) < MaxPending
          /\ queues' = PushBack(queues, task.repo, task)
          /\ iter' \in (IF task.repo \in DOMAIN queues THEN {iter}
                        ELSE OrdersAfterInsert(iter, task.repo))
    /\ chan' = (IF NotifyAfterEnqueue(notify, chan) > MaxNotes THEN MaxNotes
                ELSE NotifyAfterEnqueue(notify, chan))
    /\ UNCHANGED <<notify, pc, executing, cancelled, nextId, taken, removed, lastOp>>
    /\ UNCHANGED <<agentVars, workspaceVars>>

LiveTakeNext ==
    /\ DrainStep
    /\ UNCHANGED <<notify, chan, cancelled, nextId, taken, removed, lastOp>>
    /\ UNCHANGED <<agentVars, workspaceVars>>

\* ========================================================================
\* The agent loop: src/agent/engine.rs, AgentEngine::run
\* ========================================================================
\* ---------------------------------------------------------------- bounds
\* Largest max_turns and largest rate_limit.max_retries a run is configured with.
MaxTurns == 2
MaxRetries == 3

\* RateLimitConfig::default: initial_backoff, in seconds
InitialBackoff == 15

\* Token counts are kept in units of 2^30 tokens (every count of the model is
\* a multiple of the unit), so that the range of a u32 counter is 0 .. U32Units-1.
U32Units == 4

\* Option::None of an optional token count and of an optional string
None == -1
NoString == "<none>"

\* ------------------------------------------------- src/agent/claude.rs
\* ContentBlock::Text { text }
Text(text) ==
    [type |-> "text", text |-> text, id |-> "", name |-> "", input |-> NoString,
     is_error |-> "none"]

\* ContentBlock::ToolUse { id, name, input }; of the input only the `question`
\* entry is kept (the one entry an outcome is computed from).
ToolUse(id, name, question) ==
    [type |-> "tool_use", text |-> "", id |-> id, name |-> name, input |-> question,
     is_error |-> "none"]

\* ContentBlock::ToolResult { tool_use_id, content, is_error }
ToolResult(tool_use_id, content, is_error) ==
    [type |-> "tool_result", text |-> content, id |-> tool_use_id, name |-> "",
     input |-> NoString, is_error |-> is_error]

\* MessageContent::Text / MessageContent::Blocks
TextContent(text) == [text |-> text, blocks |-> <<>>, is_blocks |-> FALSE]
Blocks(blocks) == [text |-> "", blocks |-> blocks, is_blocks |-> TRUE]

\* Message { role, content }
Message(role, content) == [role |-> role, content |-> content]

\* Usage { input_tokens, output_tokens, cache_creation_input_tokens, cache_read_input_tokens }
Usage(input, output, cache_creation, cache_read) ==
    [input_tokens |-> input, output_tokens |-> output,
     cache_creation_input_tokens |-> cache_creation,
     cache_read_input_tokens |-> cache_read]

\* MessagesResponse { content, stop_reason, usage }
MessagesResponse(content, stop_reason, usage) ==
    [content |-> content, stop_reason |-> stop_reason, usage |-> usage]

\* ---------------------------------------------- the Protocol Client's script
\* What the service reports as usage: a small count (below one unit) or a
\* very large one.
Usages == {Usage(0, 0, None, None), Usage(2, 1, None, 1)}

\* The content and stop reason of the responses a script may hold.
Contents ==
    {<< <<Text("Fixed"), ToolUse("tu0", "read_file", NoString), Text("the bug")>>, "end_turn" >>,
     << <<Text("Reading"), ToolUse("tu1", "run_shell", NoString),
          ToolUse("tu2", "read_file", NoString)>>, "tool_use" >>,
     << <<ToolUse("tu3", "ask_clarification", "Which branch?"),
          ToolUse("tu4", "write_file", NoString)>>, "tool_use" >>,
     << <<ToolUse("tu5", "ask_clarification", NoString)>>, "tool_use" >>,
     << <<ToolUse("tu6", "grep", NoString),
          ToolUse("tu7", "ask_clarification", "Which file?")>>, "tool_use" >>,
     << <<Text("partial")>>, "max_tokens" >>,
     << <<>>, "stop_sequence" >>,
     << <<Text("x")>>, NoString >>}

\* The responses a script may hold.  Every content comes with the small
\* usage; the very large one is reported by the responses that ask for no
\* tool (the usage is added before the stop reason is looked at).
Responses ==
    {MessagesResponse(c[1], c[2], Usage(0, 0, None, None)) : c \in Contents}
       \cup {MessagesResponse(c[1], c[2], u) :
                c \in {d \in Contents : d[2] # "tool_use"}, u \in Usages}

\* src/error.rs: AppError, the variants send_message and execute_tool return
AppError(variant, msg) == [variant |-> variant, msg |-> msg]

\* src/error.rs: the Display text of an AppError (#[error("...")])
Display(e) ==
    CASE e.variant = "Agent" -> "Agent error: " \o e.msg
      [] e.variant = "ClaudeApi" -> "Claude API error: " \o e.msg
      [] e.variant = "ClaudeRateLimited" -> "Claude API rate limited: " \o e.msg
      [] e.variant = "ClaudeTransient" -> "Claude API transient error: " \o e.msg
      [] e.variant = "Http" -> "HTTP request error: " \o e.msg
      [] e.variant = "Io" -> "I/O error: " \o e.msg

\* ClaudeClient::send_message: the errors it returns
ClientErrors ==
    {AppError("ClaudeRateLimited", "Rate limited (429): slow down"),
     AppError("ClaudeRateLimited", "Rate limited (429): quota"),
     AppError("ClaudeTransient", "Server error (529): overloaded"),
     AppError("ClaudeApi", "API returned 400: bad request"),
     AppError("Http", "error decoding response body")}

\* Result<MessagesResponse>
Ok(r) == [ok |-> TRUE, response |-> r, error |-> AppError("", "")]
Err(e) ==
    [ok |-> FALSE, response |-> MessagesResponse(<<>>, NoString, Usage(0, 0, None, None)),
     error |-> e]

ClientResults == {Ok(r) : r \in Responses} \cup {Err(e) : e \in ClientErrors}

\* ------------------------------------------- src/agent/tools/mod.rs
\* ToolRegistry::new: the names of the registered tools
ToolNames ==
    {"read_file", "list_directory", "search_code", "write_file", "create_file",
     "delete_file", "ask_clarification"}

\* Result<ToolOutput>: Ok(Success), Ok(Error), Ok(ClarificationNeeded), Err(e)
ToolOutcome(kind, text) == [kind |-> kind, text |-> text]

\* AgentEngine::execute_tool: the results a call may have.  An unknown name is
\* an Err; ask_clarification depends on its `question` input only; what a file
\* tool returns depends on the workspace, which is not represented.
execute_tool(name, input) ==
    IF name \notin ToolNames
    THEN {ToolOutcome("Err", Display(AppError("Agent", "Unknown tool: " \o name)))}
    ELSE IF name = "ask_clarification"
         THEN IF input = NoString
              THEN {ToolOutcome("Error", "Missing 'question' parameter")}
              ELSE {ToolOutcome("ClarificationNeeded", input)}
         ELSE {ToolOutcome("Success", "output"),
               ToolOutcome("Error", "tool failed"),
               ToolOutcome("Err", Display(AppError("Io", "disk")))}

\* ------------------------------------------- src/agent/engine.rs
\* AgentOutcome
Completed(summary) == [kind |-> "Completed", text |-> summary]
ClarificationNeeded(question) == [kind |-> "ClarificationNeeded", text |-> question]
TurnLimitReached ==
    [kind |-> "TurnLimitReached",
     text |-> "Agent reached maximum number of turns without completing the task."]
RateLimited(message) == [kind |-> "RateLimited", text |-> message]
Cancelled == [kind |-> "Cancelled", text |-> ""]
Failed(error) == [kind |-> "Failed", text |-> error]

\* RateLimitConfig { enabled, max_retries, initial_backoff }
RateLimitConfig(enabled, max_retries, initial_backoff) ==
    [enabled |-> enabled, max_retries |-> max_retries, initial_backoff |-> initial_backoff]

NoResponse == MessagesResponse(<<>>, NoString, Usage(0, 0, None, None))
InitialMessage == "Resolve the issue"

\* extract_text: the text blocks, joined by "\n"
TextsOf(content) ==
    LET texts == SelectSeq(content, LAMBDA b : b.type = "text")
    IN  [j \in 1..Len(texts) |-> texts[j].text]

RECURSIVE Join(_, _)
Join(strs, sep) ==
    IF strs = <<>> THEN ""
    ELSE IF Len(strs) = 1 THEN strs[1]
    ELSE strs[1] \o sep \o Join(Tail(strs), sep)

extract_text(content) == Join(TextsOf(content), "\n")

\* line 205: response.stop_reason.as_deref().unwrap_or("unknown")
StopReason(r) == IF r.stop_reason = NoString THEN "unknown" ELSE r.stop_reason

\* cache_read_input_tokens.unwrap_or(0)
UnwrapOr0(v) == IF v = None THEN 0 ELSE v

\* a + b does not fit a u32
Overflows(a, b) == a + b >= U32Units
\* the wrapped sum
WrappingAdd(a, b) == (a + b) % U32Units

\* lines 190-193: one of the four `total += ...` overflows
AccumulateOverflows(t, u) ==
    \/ Overflows(t.input_tokens, u.input_tokens)
    \/ Overflows(t.output_tokens, u.output_tokens)
    \/ Overflows(t.cache_read_input_tokens, UnwrapOr0(u.cache_read_input_tokens))
    \/ Overflows(t.cache_creation_input_tokens, UnwrapOr0(u.cache_creation_input_tokens))

\* lines 190-193: the totals after the four additions
Accumulate(t, u) ==
    Usage(WrappingAdd(t.input_tokens, u.input_tokens),
          WrappingAdd(t.output_tokens, u.output_tokens),
          WrappingAdd(t.cache_creation_input_tokens, UnwrapOr0(u.cache_creation_input_tokens)),
          WrappingAdd(t.cache_read_input_tokens, UnwrapOr0(u.cache_read_input_tokens)))

\* 2u32.saturating_pow(n)
saturating_pow2(n) == IF n < 32 THEN 2 ^ n ELSE 2 ^ 32 - 1

\* (mutation of Backoff: the sleeps grow by initial_backoff each time)
BackoffLinear(rl, n) == rl.initial_backoff * n

\* lines 166-167: initial_backoff * 2u32.saturating_pow(retries - 1)
Backoff(rl, n) == rl.initial_backoff * saturating_pow2(n - 1)

\* (mutation of LoopEnds: the loop makes one more iteration)
LoopEndsOneLater(t, max) == t > max

\* line 126: `for turn in 0..self.max_turns` has no further iteration
LoopEnds(t, max) == t >= max

\* (mutation of GivesUp: one more retry is made)
GivesUpOneLater(rl, n) == ~rl.enabled \/ n > rl.max_retries

\* lines 150-151: the rate-limited request is not retried
GivesUp(rl, n) == ~rl.enabled \/ n >= rl.max_retries

\* position of the first tool_use block of content after position i (0: none)
NextToolUse(content, i) ==
    LET idx == {j \in (i + 1)..Len(content) : content[j].type = "tool_use"}
    IN  IF idx = {} THEN 0 ELSE Min(idx)

\* (mutation of ToolResultOf: the result of a failed call is not flagged)
ToolResultUnflagged(b, result) ==
    CASE result.kind = "Success" -> ToolResult(b.id, result.text, "none")
      [] result.kind = "Error" -> ToolResult(b.id, result.text, "true")
      [] result.kind = "Err" -> ToolResult(b.id, "Internal error: " \o result.text, "none")

\* lines 239-269: the tool-result block pushed for a tool call's result
ToolResultOf(b, result) ==
    CASE result.kind = "Success" -> ToolResult(b.id, result.text, "none")
      [] result.kind = "Error" -> ToolResult(b.id, result.text, "true")
      [] result.kind = "Err" -> ToolResult(b.id, "Internal error: " \o result.text, "true")

\* run returns the outcome o
Return(o) ==
    /\ apc' = "done"
    /\ outcome' = Append(outcome, o)

\* (mutation of EndToolTurn: the tool results are not pushed)
EndToolTurnNoMessage(msgs, results) ==
    /\ messages' = msgs
    /\ response' = NoResponse
    /\ block' = 0
    /\ tool_results' = <<>>
    /\ turn' = turn + 1
    /\ apc' = "turn"
    /\ UNCHANGED outcome

\* (mutation of EndToolTurn: each tool result is pushed as a message of its
\* own)
EndToolTurnSplit(msgs, results) ==
    /\ messages' = msgs \o [k \in 1..Len(results) |-> Message("user", Blocks(<<results[k]>>))]
    /\ response' = NoResponse
    /\ block' = 0
    /\ tool_results' = <<>>
    /\ turn' = turn + 1
    /\ apc' = "turn"
    /\ UNCHANGED outcome

\* lines 274-278 and the end of the loop body: the tool results become a user
\* message and the next iteration begins
EndToolTurn(msgs, results) ==
    /\ messages' = Append(msgs, Message("user", Blocks(results)))
    /\ response' = NoResponse
    /\ block' = 0
    /\ tool_results' = <<>>
    /\ turn' = turn + 1
    /\ apc' = "turn"
    /\ UNCHANGED outcome

\* history records: one call of send_message, one call of execute_tool
Attempt(t, answer, slept) == [turn |-> t, answer |-> answer, slept |-> slept]
ToolCall(t, id, name) == [turn |-> t, id |-> id, name |-> name]
\* send_message has not been called yet
NoResult == [ok |-> FALSE, response |-> NoResponse, error |-> AppError("", "")]

\* (mutation of TurnStart: the iteration does not check for cancellation)
TurnStartUnchecked ==
    /\ apc = "turn"
    /\ IF LoopEnds(turn, max_turns)
       THEN Return(TurnLimitReached) /\ UNCHANGED retries
       ELSE apc' = "send" /\ retries' = 0 /\ UNCHANGED outcome
    /\ UNCHANGED <<max_turns, rate_limit, overflow_checks, is_cancelled, turn,
                   messages, response, block, tool_results, totals,
                   requests, responses, sleeps, attempts, last_result, tool_calls>>
    /\ UNCHANGED <<queueVars, workspaceVars>>

\* lines 126-145: the head of an iteration
TurnStart ==
    /\ apc = "turn"
    /\ IF LoopEnds(turn, max_turns)
       THEN Return(TurnLimitReached) /\ UNCHANGED retries
       ELSE IF is_cancelled
            THEN Return(Cancelled) /\ UNCHANGED retries
            ELSE apc' = "send" /\ retries' = 0 /\ UNCHANGED outcome
    /\ UNCHANGED <<max_turns, rate_limit, overflow_checks, is_cancelled, turn,
                   messages, response, block, tool_results, totals,
                   requests, responses, sleeps, attempts, last_result, tool_calls>>
    /\ UNCHANGED <<queueVars, workspaceVars>>

\* lines 148, 190-299: send_message returned Ok(r)
OnResponse(r) ==
    /\ responses' = responses + 1
    /\ retries' = 0
    /\ attempts' = Append(attempts, Attempt(turn, "ok", 0))
    /\ UNCHANGED sleeps
    /\ IF overflow_checks /\ AccumulateOverflows(totals, r.usage)
       THEN /\ apc' = "panicked"
            /\ UNCHANGED <<turn, messages, response, block, tool_results, totals, outcome>>
       ELSE /\ totals' = Accumulate(totals, r.usage)
            /\ CASE StopReason(r) = "end_turn" ->
                      /\ Return(Completed(extract_text(r.content)))
                      /\ UNCHANGED <<turn, messages, response, block, tool_results>>
                 [] StopReason(r) = "tool_use" ->
                      LET msgs == Append(messages, Message("assistant", Blocks(r.content)))
                          first == NextToolUse(r.content, 0)
                      IN  IF first = 0
                          THEN EndToolTurn(msgs, <<>>)
                          ELSE /\ messages' = msgs
                               /\ response' = r
                               /\ block' = first
                               /\ tool_results' = <<>>
                               /\ apc' = "tools"
                               /\ UNCHANGED <<turn, outcome>>
                 [] StopReason(r) = "max_tokens" ->
                      /\ messages' = messages \o
                             <<Message("assistant", Blocks(r.content)),
                               Message("user", TextContent("Please continue."))>>
                      /\ turn' = turn + 1
                      /\ apc' = "turn"
                      /\ UNCHANGED <<response, block, tool_results, outcome>>
                 [] OTHER ->
                      /\ Return(Failed("Unexpected stop reason: " \o StopReason(r)))
                      /\ UNCHANGED <<turn, messages, response, block, tool_results>>

\* (mutation of OnRateLimited: the retries are counted over the whole run)
OnRateLimitedAcrossTurns(msg) ==
    /\ IF GivesUp(rate_limit, Len(sleeps))
       THEN /\ Return(RateLimited(msg))
            /\ attempts' = Append(attempts, Attempt(turn, "rate_limited", 0))
            /\ UNCHANGED <<retries, sleeps>>
       ELSE /\ retries' = Len(sleeps) + 1
            /\ sleeps' = Append(sleeps, Backoff(rate_limit, Len(sleeps) + 1))
            /\ attempts' = Append(attempts,
                   Attempt(turn, "rate_limited", Backoff(rate_limit, Len(sleeps) + 1)))
            /\ apc' = "sleep"
            /\ UNCHANGED outcome
    /\ UNCHANGED <<turn, messages, response, block, tool_results, totals, responses>>

\* lines 149-173: send_message returned Err(ClaudeRateLimited(msg))
OnRateLimited(msg) ==
    /\ IF GivesUp(rate_limit, retries)
       THEN /\ Return(RateLimited(msg))
            /\ attempts' = Append(attempts, Attempt(turn, "rate_limited", 0))
            /\ UNCHANGED <<retries, sleeps>>
       ELSE /\ retries' = retries + 1
            /\ sleeps' = Append(sleeps, Backoff(rate_limit, retries + 1))
            /\ attempts' = Append(attempts,
                   Attempt(turn, "rate_limited", Backoff(rate_limit, retries + 1)))
            /\ apc' = "sleep"
            /\ UNCHANGED outcome
    /\ UNCHANGED <<turn, messages, response, block, tool_results, totals, responses>>

\* (mutation of OnClientError: the failed request is retried after a backoff)
OnClientErrorRetried(e) ==
    /\ retries' = retries + 1
    /\ sleeps' = Append(sleeps, Backoff(rate_limit, retries + 1))
    /\ attempts' = Append(attempts, Attempt(turn, "error", Backoff(rate_limit, retries + 1)))
    /\ apc' = "sleep"
    /\ UNCHANGED <<turn, messages, response, block, tool_results, totals,
                   responses, outcome>>

\* lines 181-185: send_message returned another error
OnClientError(e) ==
    /\ Return(Failed("Claude API error: " \o Display(e)))
    /\ attempts' = Append(attempts, Attempt(turn, "error", 0))
    /\ UNCHANGED <<turn, retries, messages, response, block, tool_results, totals,
                   responses, sleeps>>

\* line 147: self.client.send_message(&request).await and what follows it up
\* to the next await
SendMessage ==
    /\ apc = "send"
    /\ requests' = requests + 1
    /\ \E res \in ClientResults :
          /\ last_result' = res
          /\ IF res.ok THEN OnResponse(res.response)
             ELSE IF res.error.variant = "ClaudeRateLimited"
                  THEN OnRateLimited(res.error.msg)
                  ELSE OnClientError(res.error)
    /\ UNCHANGED <<max_turns, rate_limit, overflow_checks, is_cancelled, tool_calls>>
    /\ UNCHANGED <<queueVars, workspaceVars>>

\* (mutation of BackoffDone: cancellation is not checked after the sleep)
BackoffDoneUnchecked ==
    /\ apc = "sleep"
    /\ apc' = "send"
    /\ UNCHANGED outcome
    /\ UNCHANGED <<max_turns, rate_limit, overflow_checks, is_cancelled, turn, retries,
                   messages, response, block, tool_results, totals,
                   requests, responses, sleeps, attempts, last_result, tool_calls>>
    /\ UNCHANGED <<queueVars, workspaceVars>>

\* lines 173-179: the backoff sleep is over; cancellation is checked
BackoffDone ==
    /\ apc = "sleep"
    /\ IF is_cancelled
       THEN Return(Cancelled)
       ELSE apc' = "send" /\ UNCHANGED outcome
    /\ UNCHANGED <<max_turns, rate_limit, overflow_checks, is_cancelled, turn, retries,
                   messages, response, block, tool_results, totals,
                   requests, responses, sleeps, attempts, last_result, tool_calls>>
    /\ UNCHANGED <<queueVars, workspaceVars>>

\* (mutation of ExecuteTool: an Err of execute_tool is propagated and ends the
\* run as Failed)
ExecuteToolPropagates ==
    /\ apc = "tools"
    /\ LET b == response.content[block]
       IN  \E result \in execute_tool(b.name, b.input) :
            /\ tool_calls' = Append(tool_calls, ToolCall(turn, b.id, b.name))
            /\ IF result.kind = "ClarificationNeeded"
              THEN /\ Return(ClarificationNeeded(result.text))
                   /\ UNCHANGED <<turn, messages, response, block, tool_results>>
              ELSE IF result.kind = "Err"
              THEN /\ Return(Failed("Internal error: " \o result.text))
                   /\ UNCHANGED <<turn, messages, response, block, tool_results>>
              ELSE LET results == Append(tool_results, ToolResultOf(b, result))
                       next == NextToolUse(response.content, block)
                   IN  IF next = 0
                       THEN EndToolTurn(messages, results)
                       ELSE /\ tool_results' = results
                            /\ block' = next
                            /\ UNCHANGED <<turn, messages, response, apc, outcome>>
    /\ UNCHANGED <<max_turns, rate_limit, overflow_checks, is_cancelled, retries,
                   totals, requests, responses, sleeps, attempts, last_result>>
    /\ UNCHANGED <<queueVars, workspaceVars>>

\* (mutation of ExecuteTool: cancellation is looked at before each tool call)
ExecuteToolCancellable ==
    /\ apc = "tools"
    /\ IF is_cancelled
       THEN /\ Return(Cancelled)
            /\ UNCHANGED <<turn, messages, response, block, tool_results, tool_calls>>
       ELSE LET b == response.content[block]
            IN  \E result \in execute_tool(b.name, b.input) :
                 /\ tool_calls' = Append(tool_calls, ToolCall(turn, b.id, b.name))
                 /\ IF result.kind = "ClarificationNeeded"
                    THEN /\ Return(ClarificationNeeded(result.text))
                         /\ UNCHANGED <<turn, messages, response, block, tool_results>>
                    ELSE LET results == Append(tool_results, ToolResultOf(b, result))
                             next == NextToolUse(response.content, block)
                         IN  IF next = 0
                             THEN EndToolTurn(messages, results)
                             ELSE /\ tool_results' = results
                                  /\ block' = next
                                  /\ UNCHANGED <<turn, messages, response, apc, outcome>>
    /\ UNCHANGED <<max_turns, rate_limit, overflow_checks, is_cancelled, retries,
                   totals, requests, responses, sleeps, attempts, last_result>>
    /\ UNCHANGED <<queueVars, workspaceVars>>

\* (mutation of ExecuteTool: a clarification request does not end the run; its
\* question is collected as a tool result and the loop goes on)
ExecuteToolNoShortCircuit ==
    /\ apc = "tools"
    /\ LET b == response.content[block]
       IN  \E result \in execute_tool(b.name, b.input) :
            /\ tool_calls' = Append(tool_calls, ToolCall(turn, b.id, b.name))
            /\ LET results == Append(tool_results,
                                    IF result.kind = "ClarificationNeeded"
                                    THEN ToolResult(b.id, result.text, "none")
                                    ELSE ToolResultOf(b, result))
                   next == NextToolUse(response.content, block)
               IN  IF next = 0
                   THEN EndToolTurn(messages, results)
                   ELSE /\ tool_results' = results
                        /\ block' = next
                        /\ UNCHANGED <<turn, messages, response, apc, outcome>>
    /\ UNCHANGED <<max_turns, rate_limit, overflow_checks, is_cancelled, retries,
                   totals, requests, responses, sleeps, attempts, last_result>>
    /\ UNCHANGED <<queueVars, workspaceVars>>

\* lines 232-278: one iteration of `for block in &response.content` that
\* executes a tool
ExecuteTool ==
    /\ apc = "tools"
    /\ LET b == response.content[block]
       IN  \E result \in execute_tool(b.name, b.input) :
            /\ tool_calls' = Append(tool_calls, ToolCall(turn, b.id, b.name))
            /\ IF result.kind = "ClarificationNeeded"
              THEN /\ Return(ClarificationNeeded(result.text))
                   /\ UNCHANGED <<turn, messages, response, block, tool_results>>
              ELSE LET results == Append(tool_results, ToolResultOf(b, result))
                       next == NextToolUse(response.content, block)
                   IN  IF next = 0
                       THEN EndToolTurn(messages, results)
                       ELSE /\ tool_results' = results
                            /\ block' = next
                            /\ UNCHANGED <<turn, messages, response, apc, outcome>>
    /\ UNCHANGED <<max_turns, rate_limit, overflow_checks, is_cancelled, retries,
                   totals, requests, responses, sleeps, attempts, last_result>>
    /\ UNCHANGED <<queueVars, workspaceVars>>

\* The environment: what the is_cancelled callback returns changes.
CancellationChanges ==
    /\ apc \in {"turn", "send", "sleep", "tools"}
    /\ is_cancelled' = ~is_cancelled
    /\ UNCHANGED <<max_turns, rate_limit, overflow_checks, apc, turn, retries,
                   messages, response, block, tool_results, totals, outcome,
                   requests, responses, sleeps, attempts, last_result, tool_calls>>
    /\ UNCHANGED <<queueVars, workspaceVars>>

\* ========================================================================
\* The workspace: the path guard (src/workspace/manager.rs) and the file
\* tools (src/agent/tools/*.rs) over a filesystem
\* ========================================================================
\* ---------------------------------------------------------------- bounds
\* Largest number of components of a path a tool is called with, and number
\* of tool executions in one behaviour of FsSpec.
MaxPathLen == 3
MaxToolRuns == 2

\* ------------------------------------------------------------ filesystem
\* Nodes: a directory, a regular file with its content, a symbolic link with
\* its (absolute) target.
DirNode == [kind |-> "dir", target |-> <<>>, data |-> ""]
FileNode(data) == [kind |-> "file", target |-> <<>>, data |-> data]
LinkNode(target) == [kind |-> "link", target |-> target, data |-> ""]

\* the filesystem with `path` holding `node`, and without `path`
Put(f, path, node) == [q \in DOMAIN f \cup {path} |-> IF q = path THEN node ELSE f[q]]
Remove(f, path) == [q \in DOMAIN f \ {path} |-> f[q]]

\* Path::parent of a path that has a last component, and the directory ".."
\* names for the kernel ("/" is its own parent)
parent(path) == SubSeq(path, 1, Len(path) - 1)
DotDot(dir) == IF dir = <<>> THEN <<>> ELSE parent(dir)

\* io::Result of a path lookup
Found(path) == [err |-> "none", path |-> path]
Fail(err) == [err |-> err, path |-> <<>>]

\* The kernel's path walk from the directory `cur`: ".." goes to the parent,
\* a symbolic link is replaced by its target, every component but the last
\* must be a directory.
RECURSIVE Walk(_, _, _)
Walk(f, cur, comps) ==
    IF comps = <<>> THEN Found(cur)
    ELSE IF f[cur].kind # "dir" THEN Fail("ENOTDIR")
    ELSE IF Head(comps) = ".." THEN Walk(f, DotDot(cur), Tail(comps))
    ELSE LET child == Append(cur, Head(comps))
         IN  IF child \notin DOMAIN f THEN Fail("ENOENT")
             ELSE IF f[child].kind = "link"
                  THEN Walk(f, <<>>, f[child].target \o Tail(comps))
                  ELSE Walk(f, child, Tail(comps))

\* Path::canonicalize, Path::exists, Path::is_file, Path::is_dir (all follow
\* symbolic links)
canonicalize(f, path) == Walk(f, <<>>, path)
exists(f, path) == canonicalize(f, path).err = "none"
is_file(f, path) == exists(f, path) /\ f[canonicalize(f, path).path].kind = "file"
is_dir(f, path) == exists(f, path) /\ f[canonicalize(f, path).path].kind = "dir"

\* Path::starts_with: a comparison of whole components
starts_with(path, base) ==
    Len(base) <= Len(path) /\ SubSeq(path, 1, Len(base)) = base

\* The element of a set of one element.  `let x = e;` followed by a value v
\* computed from x is written Only({v : x \in {e}}): e is evaluated once.
Only(S) == CHOOSE r \in S : TRUE

\* The location that opening `path` for writing designates: the directory
\* part is walked, and a symbolic link in the last place is followed even
\* when its target does not exist yet.
RECURSIVE Locate(_, _)
Locate(f, path) ==
    IF path = <<>> THEN Found(<<>>)
    ELSE Only({ LET name == path[Len(path)]
         IN  IF dir.err # "none" THEN dir
             ELSE IF f[dir.path].kind # "dir" THEN Fail("ENOTDIR")
             ELSE IF name = ".." THEN Found(DotDot(dir.path))
             ELSE LET child == Append(dir.path, name)
                  IN  IF child \in DOMAIN f /\ f[child].kind = "link"
                      THEN Locate(f, f[child].target)
                      ELSE Found(child)
               : dir \in {Walk(f, <<>>, parent(path))} })

\* io::Result of an operation that changes the filesystem: the error, the
\* filesystem afterwards and the locations created, written or removed
Done(f, at) == [err |-> "none", fs |-> f, at |-> at]
Refused(err, f, at) == [err |-> err, fs |-> f, at |-> at]

\* mkdir(2)
mkdir(f, path) ==
    IF path = <<>> THEN Refused("EEXIST", f, {})
    ELSE Only({ LET name == path[Len(path)]
         IN  IF dir.err # "none" THEN Refused(dir.err, f, {})
             ELSE IF f[dir.path].kind # "dir" THEN Refused("ENOTDIR", f, {})
             ELSE IF name = ".." \/ Append(dir.path, name) \in DOMAIN f
                  THEN Refused("EEXIST", f, {})
                  ELSE Done(Put(f, Append(dir.path, name), DirNode),
                            {Append(dir.path, name)})
               : dir \in {Walk(f, <<>>, parent(path))} })

\* std::fs::create_dir_all: mkdir, and on NotFound the parent first
RECURSIVE create_dir_all(_, _)
create_dir_all(f, path) ==
    IF path = <<>> THEN Done(f, {})
    ELSE Only({ IF first.err = "none" THEN first
         ELSE IF first.err # "ENOENT"
              THEN IF is_dir(f, path) THEN Done(f, {}) ELSE first
              ELSE Only({ IF above.err # "none" THEN above
                   ELSE Only({ IF second.err = "none" \/ is_dir(above.fs, path)
                        THEN Done(second.fs, above.at \cup second.at)
                        ELSE Refused(second.err, second.fs, above.at \cup second.at)
                              : second \in {mkdir(above.fs, path)} })
                         : above \in {create_dir_all(f, parent(path))} })
               : first \in {mkdir(f, path)} })

\* std::fs::write: create or truncate the file `path` designates
write(f, path, data) ==
    Only({ IF loc.err # "none" THEN Refused(loc.err, f, {})
         ELSE IF loc.path \in DOMAIN f /\ f[loc.path].kind = "dir"
              THEN Refused("EISDIR", f, {})
         ELSE IF DotDot(loc.path) \notin DOMAIN f THEN Refused("ENOENT", f, {})
         ELSE IF f[DotDot(loc.path)].kind # "dir" THEN Refused("ENOTDIR", f, {})
         ELSE Done(Put(f, loc.path, FileNode(data)), {loc.path})
          : loc \in {Locate(f, path)} })

\* std::fs::remove_file: unlink the entry (a link in the last place is not
\* followed)
remove_file(f, path) ==
    IF path = <<>> THEN Refused("EISDIR", f, {})
    ELSE Only({ LET name == path[Len(path)]
         IN  IF dir.err # "none" THEN Refused(dir.err, f, {})
             ELSE IF name = ".." \/ f[dir.path].kind # "dir" THEN Refused("EISDIR", f, {})
             ELSE IF Append(dir.path, name) \notin DOMAIN f THEN Refused("ENOENT", f, {})
             ELSE IF f[Append(dir.path, name)].kind = "dir" THEN Refused("EISDIR", f, {})
             ELSE Done(Remove(f, Append(dir.path, name)), {Append(dir.path, name)})
               : dir \in {Walk(f, <<>>, parent(path))} })

\* ------------------------------------------------- the workspace and inputs
\* workspace_root (the clone of the repository), already canonical
WorkspaceRoot == <<"ws">>

\* The names a requested path is made of: a file, a symbolic link, a name
\* that does not exist, and "..".  Requested paths are relative (the tools'
\* schemas ask for a path relative to the repository root).
Components == {"f", "l", "n", ".."}

RECURSIVE PathsOfLen(_)
PathsOfLen(n) ==
    IF n = 0 THEN {<<>>}
    ELSE {Append(p, c) : p \in PathsOfLen(n - 1), c \in Components}

RequestedPaths == UNION {PathsOfLen(n) : n \in 0..MaxPathLen}

\* input["path"].as_str() is None
NoPath == <<NoString>>

\* The workspace /ws as cloned, in a directory that also holds a file /f:
\* the repository has a file f and possibly a symbolic link l (git checks
\* symbolic links out as such) to the file of the workspace, to the file
\* outside it, or to a name outside it that does not exist.
LinkTargets == {<<"ws", "f">>, <<"f">>, <<"n">>}

BaseFs ==
    [q \in {<<>>, <<"ws">>, <<"ws", "f">>, <<"f">>} |->
        IF q = <<"ws", "f">> THEN FileNode("original")
        ELSE IF q = <<"f">> THEN FileNode("secret")
        ELSE DirNode]

InitialFilesystems == {BaseFs} \cup {Put(BaseFs, <<"ws", "l">>, LinkNode(t)) : t \in LinkTargets}

\* -------------------------------------------- src/workspace/manager.rs
\* Result<PathBuf> of verify_path, with the filesystem it leaves and the
\* directories it created
Verified(path, f, made) ==
    [ok |-> TRUE, path |-> path, reason |-> "", fs |-> f, made |-> made]
Rejected(reason, f, made) ==
    [ok |-> FALSE, path |-> <<>>, reason |-> reason, fs |-> f, made |-> made]

\* lines 159-171: the check against the canonical root
CheckWithinRoot(canonical, root, f, made) ==
    LET canonical_root == canonicalize(f, root)
    IN  IF canonical_root.err # "none"
        THEN Rejected("Failed to resolve workspace root", f, made)
        ELSE IF ~starts_with(canonical, canonical_root.path)
             THEN Rejected("Path traversal detected", f, made)
             ELSE Verified(canonical, f, made)

\* WorkspaceManager::verify_path.  full_path always has a parent here, the
\* workspace root not being "/".
verify_path(f, workspace_root, requested_path) ==
    LET full_path == workspace_root \o requested_path
        file_name == full_path[Len(full_path)]
    IN  IF exists(f, full_path)
        THEN CheckWithinRoot(canonicalize(f, full_path).path, workspace_root, f, {})
        ELSE Only({ IF created.err # "none"
             THEN Rejected("Failed to create directory", created.fs, created.at)
             ELSE Only({ IF canonical_parent.err # "none"
                  THEN Rejected("Failed to resolve path", created.fs, created.at)
                  ELSE IF file_name = ".."
                       THEN Rejected("Invalid file name", created.fs, created.at)
                       ELSE CheckWithinRoot(Append(canonical_parent.path, file_name),
                                            workspace_root, created.fs, created.at)
                        : canonical_parent \in {canonicalize(created.fs, parent(full_path))} })
                   : created \in {IF exists(f, parent(full_path)) THEN Done(f, {})
                  ELSE create_dir_all(f, parent(full_path))} })

\* ------------------------------------------------ src/agent/tools/*.rs
\* crate::agent::tools::verified_path (not part of the sources at hand): the
\* guard applied to the `path` parameter of a tool
verified_path(f, workspace_root, path_str) == verify_path(f, workspace_root, path_str)

\* crate::agent::tools::require_param! (not part of the sources at hand): the
\* parameter is present and a string (it is not `missing`); the tool returns
\* an Error otherwise
require_param(value, missing) == value # missing

\* a filesystem access of a tool execution
Access(op, at) == [op |-> op, at |-> at]
Accesses(op, locations) == {Access(op, q) : q \in locations}

\* the record of a tool execution: what the guard answered if it was called,
\* the location the requested path designated when the tool was called, the
\* tool's output and its accesses
NotCalled == [called |-> FALSE, ok |-> FALSE, path |-> <<>>, reason |-> ""]
Called(v) == [called |-> TRUE, ok |-> v.ok, path |-> v.path, reason |-> v.reason]
FsCall(tool, guard, real, output, accesses) ==
    [tool |-> tool, guard |-> guard, real |-> real, output |-> output,
     accesses |-> accesses]
NoFsCall == FsCall("none", NotCalled, Fail("none"), ToolOutcome("none", ""), {})

\* what a tool execution leaves: the filesystem and its record
Executed(f, call) == [fs |-> f, call |-> call]

\* a tool returned before it called the guard
EarlyReturn(f, tool, path, text) ==
    Executed(f, FsCall(tool, NotCalled, Fail("none"), ToolOutcome("Error", text), {}))

\* a tool returned after the guard's answer v, having accessed `accesses`
\* besides what the guard did
AfterGuard(f, tool, path, v, kind, text, after, accesses) ==
    Executed(after,
             FsCall(tool, Called(v), Locate(f, WorkspaceRoot \o path),
                    ToolOutcome(kind, text),
                    Accesses("mkdir", v.made) \cup accesses))

\* ReadFileTool.max_file_size, and metadata.len() of a file: what the tools
\* write is larger than the limit, what the clone holds is not
max_file_size == 1
FileSize(data) == IF data = "new" THEN 2 ELSE 1

\* ReadFileTool::execute
read_file(f, path) ==
    IF path = NoPath THEN EarlyReturn(f, "read_file", path, "Missing 'path' parameter")
    ELSE Only({ IF ~v.ok THEN AfterGuard(f, "read_file", path, v, "Error", "Invalid path", v.fs, {})
         ELSE IF ~exists(v.fs, v.path)
              THEN AfterGuard(f, "read_file", path, v, "Error", "File not found", v.fs, {})
         ELSE IF ~is_file(v.fs, v.path)
              THEN AfterGuard(f, "read_file", path, v, "Error", "not a file", v.fs, {})
         ELSE LET at == canonicalize(v.fs, v.path).path
              IN  IF FileSize(v.fs[at].data) > max_file_size
                  THEN AfterGuard(f, "read_file", path, v, "Error", "File is too large",
                                  v.fs, {Access("metadata", at)})
                  ELSE AfterGuard(f, "read_file", path, v, "Success", v.fs[at].data, v.fs,
                                  {Access("metadata", at), Access("read", at)})
               : v \in {verify_path(f, WorkspaceRoot, path)} })

\* WriteFileTool::execute
write_file(f, path, content) ==
    IF path = NoPath THEN EarlyReturn(f, "write_file", path, "Missing 'path' parameter")
    ELSE IF content = NoString
         THEN EarlyReturn(f, "write_file", path, "Missing 'content' parameter")
    ELSE Only({ IF ~v.ok THEN AfterGuard(f, "write_file", path, v, "Error", "Invalid path", v.fs, {})
         ELSE IF ~exists(v.fs, v.path)
              THEN AfterGuard(f, "write_file", path, v, "Error", "File does not exist",
                              v.fs, {})
         ELSE Only({ IF w.err # "none"
              THEN AfterGuard(f, "write_file", path, v, "Error", "Failed to write file",
                              w.fs, {})
              ELSE AfterGuard(f, "write_file", path, v, "Success", "Successfully wrote",
                              w.fs, Accesses("write", w.at))
                    : w \in {write(v.fs, v.path, content)} })
               : v \in {verify_path(f, WorkspaceRoot, path)} })

\* CreateFileTool::execute
create_file(f, path, content) ==
    IF path = NoPath THEN EarlyReturn(f, "create_file", path, "Missing 'path' parameter")
    ELSE IF content = NoString
         THEN EarlyReturn(f, "create_file", path, "Missing 'content' parameter")
    ELSE Only({ IF ~v.ok THEN AfterGuard(f, "create_file", path, v, "Error", "Invalid path", v.fs, {})
         ELSE IF exists(v.fs, v.path)
              THEN AfterGuard(f, "create_file", path, v, "Error", "File already exists",
                              v.fs, {})
         ELSE Only({ IF w.err # "none"
              THEN AfterGuard(f, "create_file", path, v, "Error", "Failed to create file",
                              w.fs, {})
              ELSE AfterGuard(f, "create_file", path, v, "Success", "Successfully created",
                              w.fs, Accesses("write", w.at))
                    : w \in {write(v.fs, v.path, content)} })
               : v \in {verify_path(f, WorkspaceRoot, path)} })

\* DeleteFileTool::execute
delete_file(f, path) ==
    IF ~require_param(path, NoPath)
    THEN EarlyReturn(f, "delete_file", path, "Missing 'path' parameter")
    ELSE Only({ IF ~v.ok THEN AfterGuard(f, "delete_file", path, v, "Error", "Invalid path", v.fs, {})
         ELSE IF ~exists(v.fs, v.path)
              THEN AfterGuard(f, "delete_file", path, v, "Error", "File not found", v.fs, {})
         ELSE IF ~is_file(v.fs, v.path)
              THEN AfterGuard(f, "delete_file", path, v, "Error", "not a file", v.fs, {})
         ELSE Only({ IF r.err # "none"
              THEN AfterGuard(f, "delete_file", path, v, "Error", "Failed to delete file",
                              r.fs, {})
              ELSE AfterGuard(f, "delete_file", path, v, "Success", "Successfully deleted",
                              r.fs, Accesses("delete", r.at))
                    : r \in {remove_file(v.fs, v.path)} })
               : v \in {verified_path(f, WorkspaceRoot, path)} })

\* the entries read_dir yields: the names of the directory's children
Entries(f, dir) == {q[Len(q)] : q \in {c \in DOMAIN f : c # <<>> /\ parent(c) = dir}}

\* ListDirectoryTool::execute
list_directory(f, path) ==
    IF ~require_param(path, NoPath)
    THEN EarlyReturn(f, "list_directory", path, "Missing 'path' parameter")
    ELSE Only({ IF ~v.ok
         THEN AfterGuard(f, "list_directory", path, v, "Error", "Invalid path", v.fs, {})
         ELSE IF ~exists(v.fs, v.path)
              THEN AfterGuard(f, "list_directory", path, v, "Error", "Directory not found",
                              v.fs, {})
         ELSE IF ~is_dir(v.fs, v.path)
              THEN AfterGuard(f, "list_directory", path, v, "Error", "not a directory",
                              v.fs, {})
         ELSE LET at == canonicalize(v.fs, v.path).path
              IN  AfterGuard(f, "list_directory", path, v, "Success",
                             IF Entries(v.fs, at) = {} THEN "Directory is empty" ELSE "entries",
                             v.fs, {Access("list", at)})
               : v \in {verified_path(f, WorkspaceRoot, path)} })

\* SearchCodeTool::execute: grep -rn runs with search_dir as its current
\* directory and reads the files below it (-r does not follow the symbolic
\* links it meets).  The `path` parameter is optional.
search_code(f, pattern, path) ==
    LET search_dir == IF path # NoPath THEN WorkspaceRoot \o path ELSE WorkspaceRoot
        real == IF path # NoPath THEN Locate(f, search_dir) ELSE Fail("none")
    IN  IF ~require_param(pattern, NoString)
        THEN EarlyReturn(f, "search_code", path, "Missing 'pattern' parameter")
        ELSE IF ~exists(f, search_dir)
        THEN Executed(f, FsCall("search_code", NotCalled, real,
                                ToolOutcome("Error", "Search directory does not exist"), {}))
        ELSE IF ~is_dir(f, search_dir)
             THEN Executed(f, FsCall("search_code", NotCalled, real,
                                     ToolOutcome("Error", "Search failed"), {}))
             ELSE Executed(f, FsCall("search_code", NotCalled, real,
                                     ToolOutcome("Success", "matches"),
                                     {Access("search", canonicalize(f, search_dir).path)}))

\* --------------------------------------------------------------- actions
\* the content parameter of write_file and create_file
FileContents == {NoString, "new"}

\* the pattern parameter of search_code
Patterns == {NoString, "x"}

\* one execution of a tool with the result `result`
ToolRun(result) ==
    /\ fsRuns < MaxToolRuns
    /\ fsRuns' = fsRuns + 1
    /\ \E r \in {result} :
          /\ fs' = r.fs
          /\ fsCall' = r.call

ReadFile ==
    /\ \E path \in RequestedPaths \cup {NoPath} : ToolRun(read_file(fs, path))
    /\ UNCHANGED <<queueVars, agentVars, gitVars, workflowVars, clientVars, lockVars>>

WriteFile ==
    /\ \E path \in RequestedPaths \cup {NoPath}, content \in FileContents :
          ToolRun(write_file(fs, path, content))
    /\ UNCHANGED <<queueVars, agentVars, gitVars, workflowVars, clientVars, lockVars>>

CreateFile ==
    /\ \E path \in RequestedPaths \cup {NoPath}, content \in FileContents :
          ToolRun(create_file(fs, path, content))
    /\ UNCHANGED <<queueVars, agentVars, gitVars, workflowVars, clientVars, lockVars>>

DeleteFile ==
    /\ \E path \in RequestedPaths \cup {NoPath} : ToolRun(delete_file(fs, path))
    /\ UNCHANGED <<queueVars, agentVars, gitVars, workflowVars, clientVars, lockVars>>

ListDirectory ==
    /\ \E path \in RequestedPaths \cup {NoPath} : ToolRun(list_directory(fs, path))
    /\ UNCHANGED <<queueVars, agentVars, gitVars, workflowVars, clientVars, lockVars>>

SearchCode ==
    /\ \E path \in RequestedPaths \cup {NoPath}, pattern \in Patterns :
          ToolRun(search_code(fs, pattern, path))
    /\ UNCHANGED <<queueVars, agentVars, gitVars, workflowVars, clientVars, lockVars>>

\* ========================================================================
\* Git operations on a clone (src/workspace/git.rs)
\* ========================================================================
\* ---------------------------------------------------------------- bounds
\* Largest length of a branch name, and number of git operations in one
\* behaviour of GitSpec.
MaxNameLen == 2
MaxGitCalls == 2

\* A branch name is a string, kept as the sequence of its characters.
Chars == {"-", "a", "/"}

RECURSIVE NamesOfLen(_)
NamesOfLen(n) ==
    IF n = 0 THEN {<<>>}
    ELSE {Append(s, c) : s \in NamesOfLen(n - 1), c \in Chars}

BranchNames == UNION {NamesOfLen(n) : n \in 0..MaxNameLen}

\* str::starts_with(char)
starts_with_char(s, c) == Len(s) >= 1 /\ s[1] = c

\* (mutation of validate_branch_name: only a double dash is refused)
validate_long_options_only(name) ==
    ~(Len(name) >= 2 /\ name[1] = "-" /\ name[2] = "-")

\* validate_branch_name: TRUE for Ok(()), FALSE for Err(AppError::Git(..))
validate_branch_name(name) == ~starts_with_char(name, "-")

\* The clone
Repository(local, head, tracking, origin) ==
    [local |-> local, head |-> head, tracking |-> tracking, origin |-> origin]

\* Result<()> of an operation, with the repository it leaves and the libgit2
\* calls it made
GitResult(ok, r, calls) == [ok |-> ok, repo |-> r, calls |-> calls]

\* libgit2 refuses a reference name that is empty or ends with "/"
ValidRefName(name) == name # <<>> /\ name[Len(name)] # "/"

\* fetch_and_checkout
fetch_and_checkout(r, name) ==
    IF ~validate_branch_name(name) THEN GitResult(FALSE, r, <<>>)
    ELSE LET fetched == IF name \in r.origin
                        THEN [r EXCEPT !.tracking = @ \cup {name}] ELSE r
         IN  IF name \notin fetched.tracking
             THEN GitResult(FALSE, fetched, <<"open", "find_remote", "fetch", "find_reference">>)
             ELSE IF name \in fetched.local \/ ~ValidRefName(name)
                  THEN GitResult(FALSE, fetched,
                                 <<"open", "find_remote", "fetch", "find_reference", "branch">>)
                  ELSE GitResult(TRUE,
                                 [fetched EXCEPT !.local = @ \cup {name}, !.head = name],
                                 <<"open", "find_remote", "fetch", "find_reference", "branch",
                                   "checkout_tree", "set_head">>)

\* create_branch
create_branch(r, name) ==
    IF ~validate_branch_name(name) THEN GitResult(FALSE, r, <<>>)
    ELSE IF name \in r.local \/ ~ValidRefName(name)
         THEN GitResult(FALSE, r, <<"open", "head", "branch">>)
         ELSE GitResult(TRUE, [r EXCEPT !.local = @ \cup {name}, !.head = name],
                        <<"open", "head", "branch", "checkout_tree", "set_head">>)

\* checkout
checkout(r, name) ==
    IF ~validate_branch_name(name) THEN GitResult(FALSE, r, <<>>)
    ELSE IF name \notin r.local
         THEN GitResult(FALSE, r, <<"open", "revparse_single">>)
         ELSE GitResult(TRUE, [r EXCEPT !.head = name],
                        <<"open", "revparse_single", "checkout_tree", "set_head">>)

\* push
push(r, name) ==
    IF ~validate_branch_name(name) THEN GitResult(FALSE, r, <<>>)
    ELSE IF name \notin r.local
         THEN GitResult(FALSE, r, <<"open", "find_remote", "push">>)
         ELSE GitResult(TRUE, [r EXCEPT !.origin = @ \cup {name}],
                        <<"open", "find_remote", "push">>)

\* force_push
force_push(r, name) ==
    IF ~validate_branch_name(name) THEN GitResult(FALSE, r, <<>>)
    ELSE IF name \notin r.local
         THEN GitResult(FALSE, r, <<"open", "find_remote", "push">>)
         ELSE GitResult(TRUE, [r EXCEPT !.origin = @ \cup {name}],
                        <<"open", "find_remote", "push">>)

\* the record of a git operation: its name argument, its result, the libgit2
\* calls it made and whether it left the clone or origin changed
GitCall(op, name, res, before) ==
    [op |-> op, name |-> name, ok |-> res.ok, calls |-> res.calls,
     changed |-> res.repo # before]
NoGitCall == [op |-> "none", name |-> <<>>, ok |-> FALSE, calls |-> <<>>, changed |-> FALSE]

\* one git operation with the result res
GitRun(op, name, res) ==
    /\ gitCalls < MaxGitCalls
    /\ gitCalls' = gitCalls + 1
    /\ git_repo' = res.repo
    /\ gitCall' = GitCall(op, name, res, git_repo)

FetchAndCheckout ==
    /\ \E name \in BranchNames : GitRun("fetch_and_checkout", name, fetch_and_checkout(git_repo, name))
    /\ UNCHANGED <<queueVars, agentVars, fsVars, workflowVars, clientVars, lockVars>>

CreateBranch ==
    /\ \E name \in BranchNames : GitRun("create_branch", name, create_branch(git_repo, name))
    /\ UNCHANGED <<queueVars, agentVars, fsVars, workflowVars, clientVars, lockVars>>

Checkout ==
    /\ \E name \in BranchNames : GitRun("checkout", name, checkout(git_repo, name))
    /\ UNCHANGED <<queueVars, agentVars, fsVars, workflowVars, clientVars, lockVars>>

Push ==
    /\ \E name \in BranchNames : GitRun("push", name, push(git_repo, name))
    /\ UNCHANGED <<queueVars, agentVars, fsVars, workflowVars, clientVars, lockVars>>

ForcePush ==
    /\ \E name \in BranchNames : GitRun("force_push", name, force_push(git_repo, name))
    /\ UNCHANGED <<queueVars, agentVars, fsVars, workflowVars, clientVars, lockVars>>

\* ========================================================================
\* src/workflow/issue.rs (resolve_issue), src/workflow/review.rs
\* (respond_to_review), with the cancellation map of src/server.rs
\* ========================================================================
\* src/workflow/types.rs: WorkflowOutcome; `detail` is the pr_number or error
WorkflowOutcome(kind, detail) == [kind |-> kind, detail |-> detail]

\* Result<WorkflowOutcome>: Ok(outcome), or Err(e) of the call that `?` left by
WfOk(o) == [ok |-> TRUE, outcome |-> o, error |-> ""]
WfErr(e) == [ok |-> FALSE, outcome |-> WorkflowOutcome("", ""), error |-> e]

\* one awaited call of the workflow
WfCall(op, arg, ok) == [op |-> op, arg |-> arg, ok |-> ok]

\* The calls of the workflows: resolve_issue in implementation or research
\* mode, respond_to_review.
Workflows ==
    {[kind |-> "issue", research_only |-> r] : r \in BOOLEAN}
       \cup {[kind |-> "review", research_only |-> FALSE]}

\* src/server.rs: CancellationReason
CancellationReasons == {"IssueClosed", "LabelRemoved"}

\* What engine.run may return to a workflow (src/agent/engine.rs 129, 159,
\* 177, 183, 211, 256, 298, 304).
RunOutcomes ==
    {Completed("summary"), ClarificationNeeded("Which branch?"), TurnLimitReached,
     RateLimited("rate limited"), Cancelled, Failed("Claude API error: down")}

\* The is_cancelled callback a workflow hands to engine.run: resolve_issue
\* asks AppState::is_cancelled (issue.rs 101-105, server.rs 80-82, whether
\* the map has an entry), respond_to_review passes `|| async { false }`
\* (review.rs 83).
CancellationCallback(w, entry) == IF w.kind = "issue" THEN entry # <<>> ELSE FALSE

\* `return` of the workflow, and `?` on an Err
WfReturn(v) ==
    /\ wpc' = "returned"
    /\ wf_returned' = <<v>>

\* WorkspaceManager::cleanup (manager.rs 118-126): remove_dir_all succeeds,
\* or fails and leaves the directory
DirAfterCleanup(dir, ok) == IF ok THEN "absent" ELSE dir

\* issue.rs 28-39: the working label (its result is dropped) and
\* register_in_flight
WfBegin ==
    /\ wpc = "begin"
    /\ \E ok \in BOOLEAN :
          wf_calls' = wf_calls \o <<WfCall("add_label", "working", ok),
                                    WfCall("register_in_flight", "", TRUE)>>
    /\ in_flight' = TRUE
    /\ wpc' = "fetch"
    /\ UNCHANGED <<wf, stopped_by, agent_result, state_cancelled, workspace_dir, wf_result, wf_returned>>
    /\ UNCHANGED <<queueVars, agentVars, fsVars, gitVars, clientVars, lockVars>>

\* issue.rs 42-44, review.rs 24-26: get_issue(...).await?, get_reviews(...).await?
WfFetch ==
    /\ wpc = "fetch"
    /\ \E ok \in BOOLEAN :
          LET op == IF wf.kind = "issue" THEN "get_issue" ELSE "get_reviews"
          IN  /\ wf_calls' = Append(wf_calls, WfCall(op, "", ok))
              /\ IF ok THEN wpc' = "token" /\ UNCHANGED wf_returned
                       ELSE WfReturn(WfErr(op))
    /\ UNCHANGED <<wf, stopped_by, agent_result, state_cancelled, in_flight, workspace_dir, wf_result>>
    /\ UNCHANGED <<queueVars, agentVars, fsVars, gitVars, clientVars, lockVars>>

\* issue.rs 55, review.rs 45: get_access_token(...).await?
WfGetToken ==
    /\ wpc = "token"
    /\ \E ok \in BOOLEAN :
          /\ wf_calls' = Append(wf_calls, WfCall("get_access_token", "", ok))
          /\ IF ok THEN wpc' = "setup" /\ UNCHANGED wf_returned
                   ELSE WfReturn(WfErr("get_access_token"))
    /\ UNCHANGED <<wf, stopped_by, agent_result, state_cancelled, in_flight, workspace_dir, wf_result>>
    /\ UNCHANGED <<queueVars, agentVars, fsVars, gitVars, clientVars, lockVars>>

\* issue.rs 58-61, review.rs 48-51: setup_for_issue(...).await?,
\* setup_for_review(...).await? (manager.rs 26-92: a directory found is
\* removed, then the clone is made; a failure may leave a directory behind)
WfSetup ==
    /\ wpc = "setup"
    /\ \E ok \in BOOLEAN :
          LET op == IF wf.kind = "issue" THEN "setup_for_issue" ELSE "setup_for_review"
          IN  /\ wf_calls' = Append(wf_calls, WfCall(op, "", ok))
              /\ IF ok THEN /\ workspace_dir' = "present"
                            /\ wpc' = "run"
                            /\ UNCHANGED wf_returned
                       ELSE /\ workspace_dir' \in {"absent", "present"}
                            /\ WfReturn(WfErr(op))
    /\ UNCHANGED <<wf, stopped_by, agent_result, state_cancelled, in_flight, wf_result>>
    /\ UNCHANGED <<queueVars, agentVars, fsVars, gitVars, clientVars, lockVars>>

\* issue.rs 100-106, review.rs 82-84: engine.run(...).await returns an
\* outcome; Cancelled only when the callback has answered true
WfRunAgent ==
    /\ wpc = "run"
    /\ \E o \in RunOutcomes :
          /\ o = Cancelled => CancellationCallback(wf, state_cancelled)
          /\ agent_result' = <<o>>
          /\ stopped_by' = IF o = Cancelled THEN state_cancelled ELSE <<>>
          /\ wf_calls' = Append(wf_calls, WfCall("run", o.kind, TRUE))
    /\ wpc' = IF wf.kind = "issue" THEN "clear" ELSE "match"
    /\ UNCHANGED <<wf, state_cancelled, in_flight, workspace_dir, wf_result, wf_returned>>
    /\ UNCHANGED <<queueVars, agentVars, fsVars, gitVars, clientVars, lockVars>>

\* issue.rs 100-106, review.rs 82-84: engine.run panics (engine.rs 190-193,
\* the usage totals overflow in a build with overflow checks); the workflow
\* is unwound and returns nothing
WfRunPanics ==
    /\ wpc = "run"
    /\ wf_calls' = Append(wf_calls, WfCall("run", "panic", FALSE))
    /\ wpc' = "panicked"
    /\ UNCHANGED <<wf, stopped_by, agent_result, state_cancelled, in_flight, workspace_dir,
                   wf_result, wf_returned>>
    /\ UNCHANGED <<queueVars, agentVars, fsVars, gitVars, clientVars, lockVars>>

\* server.rs 58-66: cancel_issue(reason), called for the issue of a running
\* resolve_issue when the issue is closed or loses its label
WfCancelIssue ==
    /\ wf.kind = "issue"
    /\ wpc \in {"begin", "fetch", "token", "setup", "run", "clear", "match", "cleanup"}
    /\ \E reason \in CancellationReasons :
          /\ state_cancelled # <<reason>>
          /\ state_cancelled' = <<reason>>
    /\ UNCHANGED <<wf, stopped_by, wpc, agent_result, in_flight, workspace_dir, wf_result,
                   wf_returned, wf_calls>>
    /\ UNCHANGED <<queueVars, agentVars, fsVars, gitVars, clientVars, lockVars>>

\* issue.rs 109: state.clear_cancellation (server.rs 86-88)
WfClearCancellation ==
    /\ wpc = "clear"
    /\ state_cancelled' = <<>>
    /\ wf_calls' = Append(wf_calls, WfCall("clear_cancellation", "", TRUE))
    /\ wpc' = "match"
    /\ UNCHANGED <<wf, stopped_by, agent_result, in_flight, workspace_dir, wf_result, wf_returned>>
    /\ UNCHANGED <<queueVars, agentVars, fsVars, gitVars, clientVars, lockVars>>

\* issue.rs 154-158: the error text of a cancelled workflow
CancelledError(entry) ==
    IF entry = <<"IssueClosed">> THEN "Cancelled (issue closed)"
    ELSE IF entry = <<"LabelRemoved">> THEN "Cancelled (label removed)"
    ELSE "Cancelled"

\* (mutation of WfOnCancelled: the working label is left alone)
WfOnCancelledSilent ==
    /\ wpc = "match"
    /\ agent_result[1].kind = "Cancelled"
    /\ \E ok2, okc \in BOOLEAN :
          /\ wf_calls' =
                wf_calls
                   \o <<WfCall("get_cancellation_reason", CancelledError(state_cancelled), TRUE)>>
                   \o (IF state_cancelled = <<"LabelRemoved">>
                       THEN <<WfCall("post_comment", "stopped", ok2)>> ELSE <<>>)
                   \o <<WfCall("unregister_in_flight", "", TRUE), WfCall("cleanup", "", okc)>>
          /\ workspace_dir' = DirAfterCleanup(workspace_dir, okc)
    /\ in_flight' = FALSE
    /\ WfReturn(WfOk(WorkflowOutcome("Failed", CancelledError(state_cancelled))))
    /\ UNCHANGED <<wf, stopped_by, agent_result, state_cancelled, wf_result>>
    /\ UNCHANGED <<queueVars, agentVars, fsVars, gitVars, clientVars, lockVars>>

\* issue.rs 112-162, review.rs 87-92: the arm AgentOutcome::Cancelled, which
\* cleans up and returns by itself
WfOnCancelled ==
    /\ wpc = "match"
    /\ agent_result[1].kind = "Cancelled"
    /\ IF wf.kind = "issue"
       THEN /\ \E ok1, ok2, okc \in BOOLEAN :
                  /\ wf_calls' =
                        wf_calls
                           \o <<WfCall("get_cancellation_reason",
                                       CancelledError(state_cancelled), TRUE),
                                WfCall("remove_label", "working", ok1)>>
                           \o (IF state_cancelled = <<"LabelRemoved">>
                               THEN <<WfCall("post_comment", "stopped", ok2)>> ELSE <<>>)
                           \o <<WfCall("unregister_in_flight", "", TRUE),
                                WfCall("cleanup", "", okc)>>
                  /\ workspace_dir' = DirAfterCleanup(workspace_dir, okc)
            /\ in_flight' = FALSE
            /\ WfReturn(WfOk(WorkflowOutcome("Failed", CancelledError(state_cancelled))))
       ELSE /\ \E okc \in BOOLEAN :
                  /\ wf_calls' = Append(wf_calls, WfCall("cleanup", "", okc))
                  /\ workspace_dir' = DirAfterCleanup(workspace_dir, okc)
            /\ UNCHANGED in_flight
            /\ WfReturn(WfOk(WorkflowOutcome("Failed", "Cancelled")))
    /\ UNCHANGED <<wf, stopped_by, agent_result, state_cancelled, wf_result>>
    /\ UNCHANGED <<queueVars, agentVars, fsVars, gitVars, clientVars, lockVars>>

\* the match arm has produced `result`; cleanup follows
WfResult(o) ==
    /\ wf_result' = <<o>>
    /\ wpc' = "cleanup"
    /\ UNCHANGED wf_returned

\* issue.rs 164-192: AgentOutcome::Completed in research mode
WfOnCompletedResearch ==
    /\ wpc = "match"
    /\ agent_result[1].kind = "Completed"
    /\ wf.kind = "issue" /\ wf.research_only
    /\ \E ok1, ok2, ok3 \in BOOLEAN :
          wf_calls' = wf_calls \o <<WfCall("post_comment", "findings", ok1),
                                    WfCall("remove_label", "working", ok2),
                                    WfCall("add_label", "done", ok3)>>
    /\ WfResult(WorkflowOutcome("ResearchPosted", ""))
    /\ UNCHANGED <<wf, stopped_by, agent_result, state_cancelled, in_flight, workspace_dir>>
    /\ UNCHANGED <<queueVars, agentVars, fsVars, gitVars, clientVars, lockVars>>

\* issue.rs 193-249: AgentOutcome::Completed in implementation mode:
\* finalize(...).await?, then create_pull_request(...).await? or a comment
WfOnCompletedIssue ==
    /\ wpc = "match"
    /\ agent_result[1].kind = "Completed"
    /\ wf.kind = "issue" /\ ~wf.research_only
    /\ \E fin \in {"Err", "changes", "no changes"}, okp, ok1, ok2 \in BOOLEAN :
          CASE fin = "Err" ->
                  /\ wf_calls' = Append(wf_calls, WfCall("finalize", fin, FALSE))
                  /\ WfReturn(WfErr("finalize"))
                  /\ UNCHANGED wf_result
            [] fin = "changes" /\ ~okp ->
                  /\ wf_calls' = wf_calls \o <<WfCall("finalize", fin, TRUE),
                                               WfCall("create_pull_request", "", FALSE)>>
                  /\ WfReturn(WfErr("create_pull_request"))
                  /\ UNCHANGED wf_result
            [] fin = "changes" /\ okp ->
                  /\ wf_calls' = wf_calls \o <<WfCall("finalize", fin, TRUE),
                                               WfCall("create_pull_request", "", TRUE),
                                               WfCall("remove_label", "working", ok1),
                                               WfCall("add_label", "done", ok2)>>
                  /\ WfResult(WorkflowOutcome("PullRequestCreated", "pr"))
            [] OTHER ->
                  /\ wf_calls' = wf_calls \o <<WfCall("finalize", fin, TRUE),
                                               WfCall("post_comment", "no changes", ok1)>>
                  /\ WfResult(WorkflowOutcome("NoChanges", ""))
    /\ UNCHANGED <<wf, stopped_by, agent_result, state_cancelled, in_flight, workspace_dir>>
    /\ UNCHANGED <<queueVars, agentVars, fsVars, gitVars, clientVars, lockVars>>

\* review.rs 93-123: AgentOutcome::Completed: get_access_token(...).await?,
\* finalize(...).await?, then a comment
WfOnCompletedReview ==
    /\ wpc = "match"
    /\ agent_result[1].kind = "Completed"
    /\ wf.kind = "review"
    /\ \E okt \in BOOLEAN, fin \in {"Err", "changes", "no changes"}, ok1 \in BOOLEAN :
          CASE ~okt ->
                  /\ wf_calls' = Append(wf_calls, WfCall("get_access_token", "", FALSE))
                  /\ WfReturn(WfErr("get_access_token"))
                  /\ UNCHANGED wf_result
            [] okt /\ fin = "Err" ->
                  /\ wf_calls' = wf_calls \o <<WfCall("get_access_token", "", TRUE),
                                               WfCall("finalize", fin, FALSE)>>
                  /\ WfReturn(WfErr("finalize"))
                  /\ UNCHANGED wf_result
            [] OTHER ->
                  /\ wf_calls' = wf_calls \o <<WfCall("get_access_token", "", TRUE),
                                               WfCall("finalize", fin, TRUE),
                                               WfCall("post_comment", fin, ok1)>>
                  /\ WfResult(WorkflowOutcome(IF fin = "changes" THEN "ReviewAddressed"
                                                                 ELSE "NoChanges", ""))
    /\ UNCHANGED <<wf, stopped_by, agent_result, state_cancelled, in_flight, workspace_dir>>
    /\ UNCHANGED <<queueVars, agentVars, fsVars, gitVars, clientVars, lockVars>>

\* issue.rs 251-339, review.rs 124-176: the WorkflowOutcome of the arms
\* ClarificationNeeded, TurnLimitReached, RateLimited and Failed
StoppedOutcome(o) ==
    CASE o.kind = "ClarificationNeeded" -> WorkflowOutcome("ClarificationRequested", "")
      [] o.kind = "TurnLimitReached" -> WorkflowOutcome("Failed", "Turn limit reached")
      [] o.kind = "RateLimited" -> WorkflowOutcome("Failed", "Rate limited: " \o o.text)
      [] OTHER -> WorkflowOutcome("Failed", o.text)

\* issue.rs 251-339, review.rs 124-176: the arms ClarificationNeeded,
\* TurnLimitReached, RateLimited and Failed: a comment, and for an issue the
\* working label is removed
WfOnStopped ==
    /\ wpc = "match"
    /\ agent_result[1].kind \in {"ClarificationNeeded", "TurnLimitReached",
                                 "RateLimited", "Failed"}
    /\ \E ok1, ok2 \in BOOLEAN :
          wf_calls' =
             wf_calls \o <<WfCall("post_comment", agent_result[1].kind, ok1)>>
                      \o (IF wf.kind = "issue"
                          THEN <<WfCall("remove_label", "working", ok2)>> ELSE <<>>)
    /\ WfResult(StoppedOutcome(agent_result[1]))
    /\ UNCHANGED <<wf, stopped_by, agent_result, state_cancelled, in_flight, workspace_dir>>
    /\ UNCHANGED <<queueVars, agentVars, fsVars, gitVars, clientVars, lockVars>>

\* issue.rs 342-348, review.rs 179-181: unregister_in_flight (issue), cleanup
\* (its result is dropped), Ok(result)
WfCleanup ==
    /\ wpc = "cleanup"
    /\ \E okc \in BOOLEAN :
          /\ wf_calls' =
                wf_calls \o (IF wf.kind = "issue"
                             THEN <<WfCall("unregister_in_flight", "", TRUE)>> ELSE <<>>)
                         \o <<WfCall("cleanup", "", okc)>>
          /\ workspace_dir' = DirAfterCleanup(workspace_dir, okc)
    /\ in_flight' = FALSE
    /\ WfReturn(WfOk(wf_result[1]))
    /\ UNCHANGED <<wf, stopped_by, agent_result, state_cancelled, wf_result>>
    /\ UNCHANGED <<queueVars, agentVars, fsVars, gitVars, clientVars, lockVars>>

\* ========================================================================
\* src/agent/claude.rs: ClaudeClient::send_message
\* ========================================================================
\* http::StatusCode: the codes a response can carry, and its classes
StatusCodes == 100..999
is_success(status) == 200 <= status /\ status < 300
is_server_error(status) == 500 <= status /\ status < 600

\* The outcome of .send().await and of reading the body: send() failed, or a
\* response with a status arrived, whose body is the text `body` and, for a
\* success status, decodes as a MessagesResponse or does not.
HttpExchange(sent, status, body, decodes) ==
    [sent |-> sent, status |-> status, body |-> body, decodes |-> decodes]

HttpExchanges ==
    {HttpExchange(FALSE, 100, "", FALSE)}
       \cup {HttpExchange(TRUE, s, b, d) :
                s \in StatusCodes, b \in {"", "overloaded"}, d \in BOOLEAN}

\* (mutation of Classify: only the status 529 is transient)
ClassifyOverloadedOnly(x) ==
    IF ~x.sent
    THEN Err(AppError("ClaudeTransient", "HTTP request error: connection"))
    ELSE IF ~is_success(x.status)
         THEN IF x.status = 429
              THEN Err(AppError("ClaudeRateLimited", "Rate limited (429): " \o x.body))
              ELSE IF x.status = 529
                   THEN Err(AppError("ClaudeTransient",
                                     "Server error (" \o ToString(x.status) \o "): " \o x.body))
                   ELSE Err(AppError("ClaudeApi",
                                     "API returned " \o ToString(x.status) \o ": " \o x.body))
         ELSE IF x.decodes
              THEN Ok(MessagesResponse(<<Text(x.body)>>, "end_turn", Usage(0, 0, None, None)))
              ELSE Err(AppError("Http", "error decoding response body"))

\* lines 42-72: what send_message returns for an exchange (the reason phrase
\* that the Display of a status adds after its number is not represented)
Classify(x) ==
    IF ~x.sent
    THEN Err(AppError("ClaudeTransient", "HTTP request error: connection"))
    ELSE IF ~is_success(x.status)
         THEN IF x.status = 429
              THEN Err(AppError("ClaudeRateLimited", "Rate limited (429): " \o x.body))
              ELSE IF is_server_error(x.status) \/ x.status = 529
                   THEN Err(AppError("ClaudeTransient",
                                     "Server error (" \o ToString(x.status) \o "): " \o x.body))
                   ELSE Err(AppError("ClaudeApi",
                                     "API returned " \o ToString(x.status) \o ": " \o x.body))
         ELSE IF x.decodes
              THEN Ok(MessagesResponse(<<Text(x.body)>>, "end_turn", Usage(0, 0, None, None)))
              ELSE Err(AppError("Http", "error decoding response body"))

\* lines 31-73: one call of send_message
ClientSendMessage ==
    /\ cpc = "call"
    /\ client_returned' = <<Classify(http)>>
    /\ cpc' = "returned"
    /\ UNCHANGED http
    /\ UNCHANGED <<queueVars, agentVars, fsVars, gitVars, workflowVars, lockVars>>

\* ------------------------------------------------------------------ locks
\* ---- src/server.rs 32-36, webhook/handler.rs, queue/mod.rs, queue/startup.rs
\* AppState keeps the task queue and the cancellation registry each behind a
\* tokio RwLock.  Every `.write().await` / `.read().await` joins the lock's
\* queue of waiters and is granted in arrival order; a guard is released when
\* it goes out of scope.  The tasks that take the locks: the webhook handlers,
\* the startup scan and the queue processor, which also runs the workflow and
\* the agent loop of the task it took.
Handlers == {"handler1", "handler2"}
Tasks == Handlers \cup {"scan", "processor"}
NoGuard == "none"

\* one `.read()` or `.write()` on the cancellation registry
LockAccess(task, mode) == [task |-> task, mode |-> mode]

\* the positions at which a task stands in `.write().await` / `.read().await`
TaskQueueWaits == {"enqueue_wait", "cancel_wait", "scan_wait", "notifier_wait", "take_wait"}
CancelledWaits == {"cancelled_wait", "check_wait", "reason_wait", "clear_wait"}

\* the position a task reaches when its `.await` on the lock returns
Granted(position) ==
    CASE position = "enqueue_wait" -> "enqueue"
      [] position = "cancel_wait" -> "cancel_issue"
      [] position = "scan_wait" -> "scan_enqueue"
      [] position = "notifier_wait" -> "set_notifier"
      [] position = "take_wait" -> "take_next"
      [] position = "cancelled_wait" -> "cancelled_insert"
      [] position = "check_wait" -> "check"
      [] position = "reason_wait" -> "reason"
      [] position = "clear_wait" -> "clear"

\* task_queue.write().await is called
WaitTaskQueue(p, from, to) ==
    /\ lpc[p] = from
    /\ lpc' = [lpc EXCEPT ![p] = to]
    /\ task_queue_waiters' = Append(task_queue_waiters, p)
    /\ UNCHANGED <<task_queue_guard, cancelled_guards, cancelled_waiters>>
    /\ UNCHANGED <<queueVars, agentVars, fsVars, gitVars, workflowVars, clientVars>>

\* cancelled.read().await or cancelled.write().await is called
WaitCancelled(p, from, to, mode) ==
    /\ lpc[p] = from
    /\ lpc' = [lpc EXCEPT ![p] = to]
    /\ cancelled_waiters' = Append(cancelled_waiters, LockAccess(p, mode))
    /\ UNCHANGED <<task_queue_guard, task_queue_waiters, cancelled_guards>>
    /\ UNCHANGED <<queueVars, agentVars, fsVars, gitVars, workflowVars, clientVars>>

\* the write guard of the task queue goes out of scope
DropTaskQueue(p, from, to) ==
    /\ lpc[p] = from
    /\ task_queue_guard = p
    /\ task_queue_guard' = NoGuard
    /\ lpc' = [lpc EXCEPT ![p] = to]
    /\ UNCHANGED <<task_queue_waiters, cancelled_guards, cancelled_waiters>>
    /\ UNCHANGED <<queueVars, agentVars, fsVars, gitVars, workflowVars, clientVars>>

\* the guard of the cancellation registry goes out of scope
DropCancelled(p, from, to) ==
    /\ lpc[p] = from
    /\ \E g \in cancelled_guards : g.task = p
    /\ cancelled_guards' = {g \in cancelled_guards : g.task # p}
    /\ lpc' = [lpc EXCEPT ![p] = to]
    /\ UNCHANGED <<task_queue_guard, task_queue_waiters, cancelled_waiters>>
    /\ UNCHANGED <<queueVars, agentVars, fsVars, gitVars, workflowVars, clientVars>>

\* The first waiter of the task queue is granted the write guard once no guard
\* is held.
AcquireTaskQueue(p) ==
    /\ task_queue_waiters # <<>>
    /\ Head(task_queue_waiters) = p
    /\ task_queue_guard = NoGuard
    /\ task_queue_guard' = p
    /\ task_queue_waiters' = Tail(task_queue_waiters)
    /\ lpc' = [lpc EXCEPT ![p] = Granted(lpc[p])]
    /\ UNCHANGED <<cancelled_guards, cancelled_waiters>>
    /\ UNCHANGED <<queueVars, agentVars, fsVars, gitVars, workflowVars, clientVars>>

\* The first waiter of the cancellation registry is granted its guard: a write
\* guard once no guard is held, a read guard once no write guard is held.
AcquireCancelled(p) ==
    /\ cancelled_waiters # <<>>
    /\ Head(cancelled_waiters).task = p
    /\ IF Head(cancelled_waiters).mode = "write"
       THEN cancelled_guards = {}
       ELSE \A g \in cancelled_guards : g.mode = "read"
    /\ cancelled_guards' = cancelled_guards \cup {Head(cancelled_waiters)}
    /\ cancelled_waiters' = Tail(cancelled_waiters)
    /\ lpc' = [lpc EXCEPT ![p] = Granted(lpc[p])]
    /\ UNCHANGED <<task_queue_guard, task_queue_waiters>>
    /\ UNCHANGED <<queueVars, agentVars, fsVars, gitVars, workflowVars, clientVars>>

\* ---- src/webhook/handler.rs
\* lines 150, 220, 256, 295, 358: an event that enqueues a task
HandlerEnqueueEvent(p) == WaitTaskQueue(p, "idle", "enqueue_wait")
\* queue.enqueue(..); the guard is dropped when the handler returns
HandlerEnqueued(p) == DropTaskQueue(p, "enqueue", "idle")
\* line 93: a close / unlabel event
HandlerCancelEvent(p) == WaitTaskQueue(p, "idle", "cancel_wait")
\* lines 94-95: queue.cancel_issue(..), then state.cancel_issue(..).await with
\* the guard of line 93 still in scope (server.rs 66: cancelled.write().await)
HandlerCancelIssue(p) == WaitCancelled(p, "cancel_issue", "cancelled_wait", "write")
\* server.rs 66: insert; the guard is a temporary of that statement
HandlerInserted(p) == DropCancelled(p, "cancelled_insert", "cancel_done")
\* line 96: the block of line 93 ends
HandlerCancelDone(p) == DropTaskQueue(p, "cancel_done", "idle")

\* ---- src/queue/startup.rs
\* lines 83-84, 123-124: one iteration of a loop that enqueues
ScanWaits == WaitTaskQueue("scan", "scan", "scan_wait")
ScanEnqueued == DropTaskQueue("scan", "scan_enqueue", "scan")
\* line 129: the scan is over
ScanComplete ==
    /\ lpc["scan"] = "scan"
    /\ lpc' = [lpc EXCEPT !["scan"] = "scan_done"]
    /\ UNCHANGED <<task_queue_guard, task_queue_waiters, cancelled_guards, cancelled_waiters>>
    /\ UNCHANGED <<queueVars, agentVars, fsVars, gitVars, workflowVars, clientVars>>

\* ---- src/queue/mod.rs: run_queue_processor
\* (mutation of TakeNextGuard: the guard of take_next lives as long as the task
\* executes)
TakeNextGuardKept == "processor"

\* lines 103-106: the guard is local to the block that calls take_next
TakeNextGuard == NoGuard

\* lines 90-93: the block that installs the notifier
ProcessorStarts == WaitTaskQueue("processor", "start", "notifier_wait")
ProcessorSetNotifier == DropTaskQueue("processor", "set_notifier", "recv")
\* line 99 and 104: a notification arrives, the drain loop asks for the lock
ProcessorRecv == WaitTaskQueue("processor", "recv", "take_wait")
\* lines 103-111: take_next answers Some(task) or None; the block ends
ProcessorTakeNext ==
    /\ lpc["processor"] = "take_next"
    /\ task_queue_guard = "processor"
    /\ \E some \in BOOLEAN :
          /\ lpc' = [lpc EXCEPT !["processor"] = IF some THEN "exec" ELSE "recv"]
          /\ task_queue_guard' = (IF some THEN TakeNextGuard ELSE NoGuard)
    /\ UNCHANGED <<task_queue_waiters, cancelled_guards, cancelled_waiters>>
    /\ UNCHANGED <<queueVars, agentVars, fsVars, gitVars, workflowVars, clientVars>>
\* the workflow of the task, awaited by the processor (lines 126-173):
\* agent/engine.rs 127, 174 through the callback of workflow/issue.rs 101-105:
\* state.is_cancelled(..).await (server.rs 82: cancelled.read().await)
AgentChecks == WaitCancelled("processor", "exec", "check_wait", "read")
AgentChecked == DropCancelled("processor", "check", "exec")
\* workflow/issue.rs 114-116: get_cancellation_reason (server.rs 76)
WorkflowReadsReason == WaitCancelled("processor", "exec", "reason_wait", "read")
WorkflowReadReason == DropCancelled("processor", "reason", "exec")
\* workflow/issue.rs 109: clear_cancellation (server.rs 88)
WorkflowClears == WaitCancelled("processor", "exec", "clear_wait", "write")
WorkflowCleared == DropCancelled("processor", "clear", "exec")
\* the workflow returns and the drain loop asks for the lock again (line 104)
ProcessorLoops == WaitTaskQueue("processor", "exec", "take_wait")

\* what a task does between being granted a guard and dropping it, and the
\* grant itself: steps that need no event and no reply from outside
HoldingStep(p) ==
    \/ AcquireTaskQueue(p)
    \/ AcquireCancelled(p)
    \/ p \in Handlers /\ (HandlerEnqueued(p) \/ HandlerCancelIssue(p)
                          \/ HandlerInserted(p) \/ HandlerCancelDone(p))
    \/ p = "scan" /\ ScanEnqueued
    \/ p = "processor" /\ (ProcessorSetNotifier \/ ProcessorTakeNext \/ AgentChecked
                           \/ WorkflowReadReason \/ WorkflowCleared)


\* The tasks of the server before any of them has asked for a lock.
LockInit ==
    /\ lpc = [p \in Tasks |-> IF p \in Handlers THEN "idle"
                              ELSE IF p = "scan" THEN "scan" ELSE "start"]
    /\ task_queue_guard = NoGuard
    /\ task_queue_waiters = <<>>
    /\ cancelled_guards = {}
    /\ cancelled_waiters = <<>>

LockIdle == LockInit

\* ========================================================================
\* Specifications
\* ========================================================================
\* TaskQueue::new; run_queue_processor has not been polled yet.
QueueInit ==
    /\ queues = <<>>
    /\ iter = <<>>
    /\ notify = FALSE
    /\ chan = 0
    /\ pc = "start"
    /\ executing = {}
    /\ cancelled = {}
    /\ nextId = 1
    /\ taken = <<>>
    /\ removed = {}
    /\ lastOp = NoOp

\* The processor has installed its notifier and waits.
LiveQueueInit ==
    /\ queues = <<>>
    /\ iter = <<>>
    /\ notify = TRUE
    /\ chan = 0
    /\ pc = "recv"
    /\ executing = {}
    /\ cancelled = {}
    /\ nextId = 1
    /\ taken = <<>>
    /\ removed = {}
    /\ lastOp = NoOp

\* No run of the agent is in progress.
AgentIdle ==
    /\ max_turns = 0
    /\ rate_limit = RateLimitConfig(FALSE, 0, InitialBackoff)
    /\ overflow_checks = FALSE
    /\ is_cancelled = FALSE
    /\ apc = "idle"
    /\ turn = 0
    /\ retries = 0
    /\ messages = <<>>
    /\ response = NoResponse
    /\ block = 0
    /\ tool_results = <<>>
    /\ totals = Usage(0, 0, 0, 0)
    /\ outcome = <<>>
    /\ requests = 0
    /\ responses = 0
    /\ sleeps = <<>>
    /\ attempts = <<>>
    /\ last_result = NoResult
    /\ tool_calls = <<>>

\* lines 116-126: run has been called and stands before its first iteration.
RunInit ==
    /\ max_turns \in 0..MaxTurns
    /\ rate_limit \in {RateLimitConfig(e, m, InitialBackoff) :
                          e \in BOOLEAN, m \in 0..MaxRetries}
    /\ overflow_checks \in BOOLEAN
    /\ is_cancelled \in BOOLEAN
    /\ apc = "turn"
    /\ turn = 0
    /\ retries = 0
    /\ messages = <<Message("user", TextContent(InitialMessage))>>
    /\ response = NoResponse
    /\ block = 0
    /\ tool_results = <<>>
    /\ totals = Usage(0, 0, 0, 0)
    /\ outcome = <<>>
    /\ requests = 0
    /\ responses = 0
    /\ sleeps = <<>>
    /\ attempts = <<>>
    /\ last_result = NoResult
    /\ tool_calls = <<>>

\* A workspace as cloned, no tool having been executed.
FsInit ==
    /\ fs \in InitialFilesystems
    /\ fsRuns = 0
    /\ fsCall = NoFsCall

\* No tool is executed on the workspace.
FsIdle ==
    /\ fs = BaseFs
    /\ fsRuns = 0
    /\ fsCall = NoFsCall

\* A clone on its default branch "a"; origin also has the branch "aa".
GitInit ==
    /\ git_repo = Repository({<<"a">>}, <<"a">>, {<<"a">>}, {<<"a">>, <<"a", "a">>})
    /\ gitCalls = 0
    /\ gitCall = NoGitCall

\* No workflow is running.
WorkflowIdle ==
    /\ wf = [kind |-> "issue", research_only |-> FALSE]
    /\ wpc = "idle"
    /\ agent_result = <<>>
    /\ state_cancelled = <<>>
    /\ in_flight = FALSE
    /\ workspace_dir = "absent"
    /\ wf_result = <<>>
    /\ wf_returned = <<>>
    /\ wf_calls = <<>>
    /\ stopped_by = <<>>

\* A workflow has been called for a task; a directory of an earlier task on
\* the same branch may still be there.
WorkflowInit ==
    /\ wf \in Workflows
    /\ wpc = IF wf.kind = "issue" THEN "begin" ELSE "fetch"
    /\ agent_result = <<>>
    /\ state_cancelled = <<>>
    /\ in_flight = FALSE
    /\ workspace_dir \in {"absent", "present"}
    /\ wf_result = <<>>
    /\ wf_returned = <<>>
    /\ wf_calls = <<>>
    /\ stopped_by = <<>>

\* No call of the protocol client is represented.
ClientIdle ==
    /\ http = HttpExchange(FALSE, 100, "", FALSE)
    /\ cpc = "idle"
    /\ client_returned = <<>>

\* send_message is called; the exchange it will meet is any of HttpExchanges.
ClientInit ==
    /\ http \in HttpExchanges
    /\ cpc = "call"
    /\ client_returned = <<>>

WorkspaceIdle == FsIdle /\ GitInit /\ WorkflowIdle /\ ClientIdle /\ LockIdle

\* The scheduler with its producers; no agent run is represented.
Init == QueueInit /\ AgentIdle /\ WorkspaceIdle

Next ==
    \/ HandleIssuesEvent
    \/ HandleIssueCommentEvent
    \/ HandlePrReviewEvent
    \/ HandlePrReviewCommentEvent
    \/ ScanEnqueue
    \/ SetNotifier
    \/ Recv
    \/ TakeNext
    \/ WorkflowReturn

Spec == Init /\ [][Next]_vars

LiveInit == LiveQueueInit /\ AgentIdle /\ WorkspaceIdle

LiveNext ==
    \/ LiveEnqueue
    \/ Recv
    \/ LiveTakeNext
    \/ WorkflowReturn

\* The processor is scheduled whenever it can take a step, and every workflow
\* returns; nothing is assumed about the producers.
LiveSpec ==
    /\ LiveInit
    /\ [][LiveNext]_vars
    /\ WF_vars(Recv)
    /\ WF_vars(LiveTakeNext)
    /\ WF_vars(WorkflowReturn)

\* One run of the agent loop; the scheduler stands still.
AgentInit == QueueInit /\ RunInit /\ WorkspaceIdle

AgentNext ==
    \/ TurnStart
    \/ SendMessage
    \/ BackoffDone
    \/ ExecuteTool
    \/ CancellationChanges

\* Every await of run returns (client call, sleep, tool call, cancellation
\* check); nothing is assumed about the cancellation callback's value.
AgentSpec ==
    /\ AgentInit
    /\ [][AgentNext]_vars
    /\ WF_vars(TurnStart)
    /\ WF_vars(SendMessage)
    /\ WF_vars(BackoffDone)
    /\ WF_vars(ExecuteTool)

\* The file tools, executed in any order with any paths on a workspace; the
\* scheduler and the agent loop stand still.
FsSpecInit == QueueInit /\ AgentIdle /\ FsInit /\ GitInit /\ WorkflowIdle /\ ClientIdle /\ LockIdle

FsNext ==
    \/ ReadFile
    \/ WriteFile
    \/ CreateFile
    \/ DeleteFile
    \/ ListDirectory
    \/ SearchCode

FsSpec == FsSpecInit /\ [][FsNext]_vars

\* The git operations that take a branch name, in any order with any names.
GitSpecInit == QueueInit /\ AgentIdle /\ FsIdle /\ GitInit /\ WorkflowIdle /\ ClientIdle /\ LockIdle

GitNext ==
    \/ FetchAndCheckout
    \/ CreateBranch
    \/ Checkout
    \/ Push
    \/ ForcePush

GitSpec == GitSpecInit /\ [][GitNext]_vars

\* One call of resolve_issue or respond_to_review, with the results of the
\* platform, of the workspace manager and of the agent run as its inputs, and
\* cancel_issue arriving at any moment; everything else stands still.
WorkflowSpecInit ==
    QueueInit /\ AgentIdle /\ FsIdle /\ GitInit /\ WorkflowInit /\ ClientIdle /\ LockIdle

WorkflowNext ==
    \/ WfBegin
    \/ WfFetch
    \/ WfGetToken
    \/ WfSetup
    \/ WfRunAgent
    \/ WfRunPanics
    \/ WfCancelIssue
    \/ WfClearCancellation
    \/ WfOnCancelled
    \/ WfOnCompletedResearch
    \/ WfOnCompletedIssue
    \/ WfOnCompletedReview
    \/ WfOnStopped
    \/ WfCleanup

WorkflowSpec == WorkflowSpecInit /\ [][WorkflowNext]_vars

\* One call of send_message for every exchange; everything else stands still.
ClientSpecInit ==
    QueueInit /\ AgentIdle /\ FsIdle /\ GitInit /\ WorkflowIdle /\ ClientInit /\ LockIdle

ClientNext == ClientSendMessage

ClientSpec == ClientSpecInit /\ [][ClientNext]_vars

\* The tasks of the server at the locks; everything else stands still.
LockSpecInit ==
    QueueInit /\ AgentIdle /\ FsIdle /\ GitInit /\ WorkflowIdle /\ ClientIdle /\ LockInit

LockNext ==
    \/ \E p \in Tasks : AcquireTaskQueue(p)
    \/ \E p \in Tasks : AcquireCancelled(p)
    \/ \E p \in Handlers : HandlerEnqueueEvent(p)
    \/ \E p \in Handlers : HandlerEnqueued(p)
    \/ \E p \in Handlers : HandlerCancelEvent(p)
    \/ \E p \in Handlers : HandlerCancelIssue(p)
    \/ \E p \in Handlers : HandlerInserted(p)
    \/ \E p \in Handlers : HandlerCancelDone(p)
    \/ ScanWaits
    \/ ScanEnqueued
    \/ ScanComplete
    \/ ProcessorStarts
    \/ ProcessorSetNotifier
    \/ ProcessorRecv
    \/ ProcessorTakeNext
    \/ AgentChecks
    \/ AgentChecked
    \/ WorkflowReadsReason
    \/ WorkflowReadReason
    \/ WorkflowClears
    \/ WorkflowCleared
    \/ ProcessorLoops

LockSpec == LockSpecInit /\ [][LockNext]_vars

\* A task that has been granted a guard runs until it drops it, and a lock
\* that is free is granted to its first waiter (tokio's RwLock queues its
\* waiters in arrival order).  Nothing is assumed about the arrival of events,
\* of notifications or of the replies a workflow waits for.
LiveLockSpec ==
    /\ LockSpecInit
    /\ [][LockNext]_vars
    /\ \A p \in Tasks : WF_vars(HoldingStep(p))

\* ========================================================================
\* Properties
\* ========================================================================
Ids(S) == {t.id : t \in S}
\* the stamps of the tasks pending under a key, in queue order
IdsOf(repo) ==
    IF repo \in DOMAIN queues THEN [j \in 1..Len(queues[repo]) |-> queues[repo][j].id] ELSE <<>>

\* C1: at every instant at most one task is executing (so no two tasks of one
\* repository key execute concurrently), and take_next hands out a task only
\* when the workflow of the previously taken task has returned.
C1_AtMostOneExecuting ==
    /\ Cardinality(executing) <= 1
    /\ \A t, u \in executing : t.repo = u.repo => t = u
    /\ pc = "take" => executing = {}

\* a task is executing while another task of the same key and a task of the
\* other key are pending
C1_Witness ==
    \E t \in executing :
        /\ \E u \in Pending(queues) : u.repo = t.repo
        /\ \E u \in Pending(queues) : u.repo # t.repo

\* C2: tasks of one repository key are taken in the order they were enqueued:
\* every queue holds its tasks in enqueue order, and a task that has been taken
\* was enqueued before every task still pending under its key.
C2_FifoWithinKey ==
    /\ \A k \in DOMAIN queues : \A i, j \in 1..Len(queues[k]) :
          i < j => queues[k][i].id < queues[k][j].id
    /\ \A t \in executing : \A u \in Pending(queues) : u.repo = t.repo => t.id < u.id

\* the second task taken is executing and a task enqueued later under its key
\* is pending
C2_Witness ==
    \E t \in executing :
        /\ Len(taken) = 2
        /\ \E u \in Pending(queues) : u.repo = t.repo

\* C3: the processor never waits for a notification while a task is pending
\* and no notification is waiting (otherwise that task is not taken until some
\* later enqueue happens to wake the processor).
C3_NoLostWakeup == ~(pc = "recv" /\ chan = 0 /\ Pending(queues) # {})

\* C4: with tasks enqueued under A, A, B (stamps 1, 2, 3) and nothing else,
\* take_next returns the first task of A, then the task of B, then the second
\* task of A.
C4_RoundRobinABA ==
    /\ (taken = <<>> /\ removed = {} /\ IdsOf("A") = <<1, 2>> /\ IdsOf("B") = <<3>>)
          => take_next_result(queues, iter).id = 1
    /\ (taken = <<1>> /\ removed = {} /\ IdsOf("A") = <<2>> /\ IdsOf("B") = <<3>>
        /\ \E t \in executing : t.id = 1 /\ t.repo = "A")
          => take_next_result(queues, iter).id = 3
    /\ (taken = <<1, 3>> /\ removed = {} /\ IdsOf("A") = <<2>> /\ IdsOf("B") = <<>>)
          => take_next_result(queues, iter).id = 2

\* C5: a task pending under key B is eventually returned by take_next, whatever
\* is enqueued under key A in the meantime.
C5_NoStarvation ==
    (\E t \in Pending(queues) : t.repo = "B") ~> (\E t \in executing : t.repo = "B")

\* C6: the task map holds no repository key whose sequence is empty.
C6_NoEmptyQueue == \A k \in DOMAIN queues : queues[k] # <<>>

\* position of the task stamped id in the sequence s (0 if absent)
PosOf(s, id) ==
    IF \E j \in 1..Len(s) : s[j].id = id
    THEN CHOOSE j \in 1..Len(s) : s[j].id = id
    ELSE 0

\* C7: cancel_issue(R, i) removes from R's sequence exactly the ResolveIssue
\* tasks of issue i; the other tasks of R stay in their relative order and the
\* sequences of the other keys are unchanged.  (Stated on the state right
\* after the call, against the map the call found.)
C7_CancelFrame ==
    lastOp.op = "cancel_issue" =>
        LET R == lastOp.repo
            i == lastOp.num
            before == lastOp.queues
            old == IF R \in DOMAIN before THEN before[R] ELSE <<>>
            new == IF R \in DOMAIN queues THEN queues[R] ELSE <<>>
        IN  /\ SeqSet(old) \ SeqSet(new) =
                   {t \in SeqSet(old) : t.kind = "ResolveIssue" /\ t.num = i}
            /\ SeqSet(new) \subseteq SeqSet(old)
            /\ Len(new) = Cardinality(SeqSet(new))
            /\ \A a, b \in 1..Len(new) :
                   a < b => PosOf(old, new[a].id) < PosOf(old, new[b].id)
            /\ DOMAIN queues = DOMAIN before
            /\ \A k \in DOMAIN before : k # R => queues[k] = before[k]

\* a cancel has just removed a task and left, in this order, a review task
\* with the cancelled number and a task of another issue
C7_Witness ==
    /\ lastOp.op = "cancel_issue"
    /\ removed # {}
    /\ lastOp.repo \in DOMAIN queues
    /\ Len(queues[lastOp.repo]) = 2
    /\ queues[lastOp.repo][1].kind = "RespondToReview"
    /\ queues[lastOp.repo][1].num = lastOp.num
    /\ queues[lastOp.repo][2].kind = "ResolveIssue"

\* C8: handling a close / unlabel event for (R, i) removes every pending
\* ResolveIssue task of (R, i) and leaves the tasks already dequeued where they
\* are; a removed task is never returned by take_next nor executed afterwards.
C8_CancelPending ==
    /\ removed \cap SeqSet(taken) = {}
    /\ removed \cap Ids(executing) = {}
    /\ removed \cap Ids(Pending(queues)) = {}
    /\ lastOp.op = "cancel_issue" =>
          /\ \A t \in Pending(lastOp.queues) :
                (t.kind = "ResolveIssue" /\ t.repo = lastOp.repo /\ t.num = lastOp.num)
                    => (t.id \in removed /\ t \notin Pending(queues))
          /\ executing = lastOp.executing
          /\ Ids(executing) \subseteq SeqSet(taken)

\* a close event for an issue has removed a pending task of that issue while
\* another task of the same issue is executing
C8_Witness ==
    /\ lastOp.op = "cancel_issue"
    /\ removed # {}
    /\ \E t \in executing :
          t.kind = "ResolveIssue" /\ t.repo = lastOp.repo /\ t.num = lastOp.num

\* C9: every run of the agent loop ends with exactly one outcome, after at
\* most max_turns * (max_retries + 1) requests to the client.
C9_TerminatesWithOneOutcome ==
    /\ [](requests <= max_turns * (rate_limit.max_retries + 1))
    /\ [](Len(outcome) <= 1)
    /\ <>(apc = "done" /\ Len(outcome) = 1)

\* The parts of C9 that do hold: the bound on the requests and the single
\* outcome always; the end of the run always, by a return or by the panic of
\* an overflowing usage counter; the return whenever the build wraps.
RequestBound ==
    /\ requests <= max_turns * (rate_limit.max_retries + 1)
    /\ Len(outcome) <= 1
    /\ (apc = "done") = (Len(outcome) = 1)
RunEnds == <>(apc \in {"done", "panicked"})
ReturnsUnlessOverflowChecked == overflow_checks \/ <>(apc = "done" /\ Len(outcome) = 1)

\* the run has panicked: its second large usage report overflowed a counter
C9_Panicked == apc = "panicked" /\ responses = 2 /\ outcome = <<>>

\* number of assistant messages of a conversation
NumAssistant(msgs) == Len(SelectSeq(msgs, LAMBDA m : m.role = "assistant"))

\* C10: the loop processes at most max_turns responses and sends no request
\* after the max_turns-th response (none at all when max_turns = 0); a run
\* that returns has returned TurnLimitReached exactly when max_turns turns
\* went by without a terminal outcome, and returned it once; every tool_use
\* and every max_tokens turn counts as one turn.
C10_TurnLimit ==
    /\ [](/\ responses <= max_turns
          /\ (max_turns = 0 => requests = 0)
          /\ (apc \in {"turn", "send", "sleep"} => turn = NumAssistant(messages))
          /\ (apc = "done" =>
                 /\ Len(outcome) = 1
                 /\ (outcome[1] = TurnLimitReached) = (turn = max_turns)))
    /\ [][(requests' # requests) => responses < max_turns]_vars

\* TurnLimitReached has been returned after a tool_use turn and a max_tokens turn
C10_Witness ==
    /\ apc = "done"
    /\ outcome = <<TurnLimitReached>>
    /\ max_turns = 2
    /\ responses = 2
    /\ \E j \in 1..Len(messages) : messages[j].content.text = "Please continue."
    /\ \E j \in 1..Len(messages) :
          /\ messages[j].role = "user"
          /\ messages[j].content.is_blocks
          /\ Len(messages[j].content.blocks) = 2

\* C11: when the cancellation check of an iteration returns true (before the
\* first turn or any later one), run returns Cancelled in that very step: no
\* request is sent and no tool is executed, then or afterwards.
C11_CancelledAtTurnStart ==
    /\ [][(apc = "turn" /\ turn < max_turns /\ is_cancelled /\ apc' # "turn")
            => /\ apc' = "done"
               /\ outcome' = <<Cancelled>>
               /\ requests' = requests
               /\ attempts' = attempts
               /\ tool_calls' = tool_calls]_vars
    /\ [][apc = "done" => UNCHANGED <<outcome, requests, attempts, tool_calls>>]_vars

\* the run was cancelled before its first turn
C11_Witness ==
    /\ apc = "done"
    /\ outcome = <<Cancelled>>
    /\ max_turns > 0
    /\ turn = 0
    /\ requests = 0
    /\ attempts = <<>>
    /\ tool_calls = <<>>

\* the attempts of the turn t, in order
TurnAttempts(t) == SelectSeq(attempts, LAMBDA a : a.turn = t)
\* the first n attempts of ta were all answered with rate-limited
AllRateLimited(ta, n) == \A k \in 1..n : ta[k].answer = "rate_limited"
Turns == {attempts[j].turn : j \in 1..Len(attempts)}

\* C12: with retry enabled, a turn whose request was answered with
\* rate-limited N <= max_retries times and then with a response has slept
\* exactly N times, the k-th time for initial_backoff * 2^(k-1) seconds (twice
\* the sleep before), and has not ended the run as RateLimited.
C12_BackoffThenSuccess ==
    \A t \in Turns :
       LET ta == TurnAttempts(t)
           N == Len(ta) - 1
       IN  (/\ rate_limit.enabled
            /\ ta[N + 1].answer = "ok"
            /\ AllRateLimited(ta, N))
           => /\ N <= rate_limit.max_retries
              /\ \A k \in 1..N : ta[k].slept = rate_limit.initial_backoff * 2 ^ (k - 1)
              /\ \A k \in 2..N : ta[k].slept = 2 * ta[k - 1].slept
              /\ ta[N + 1].slept = 0
              /\ Len(sleeps) = Len(SelectSeq(attempts, LAMBDA a : a.slept > 0))
              /\ ~(t = turn /\ outcome # <<>> /\ outcome[1].kind = "RateLimited")

\* a first turn has got its response after max_retries = 3 rate-limited
\* attempts, having slept 15, 30 and 60 seconds
C12_Witness ==
    /\ rate_limit.enabled
    /\ rate_limit.max_retries = 3
    /\ Len(attempts) = 4
    /\ AllRateLimited(attempts, 3)
    /\ attempts[4].answer = "ok"
    /\ sleeps = <<15, 30, 60>>
    /\ apc = "done"
    /\ outcome[1].kind = "Completed"

\* C13: run returns RateLimited exactly when every attempt the retry policy
\* allows for the turn (max_retries + 1 with retry enabled, one with retry
\* disabled) was answered with rate-limited; it has then slept max_retries
\* times (not at all with retry disabled) in that turn, and the message it
\* returns is that of the last answer.
C13_RateLimitedAfterMaxRetries ==
    LET ta == TurnAttempts(turn)
        allowed == IF rate_limit.enabled THEN rate_limit.max_retries + 1 ELSE 1
    IN  /\ \A t \in Turns : Len(TurnAttempts(t)) <= allowed
        /\ (Len(ta) = allowed /\ AllRateLimited(ta, allowed))
              => (apc = "done" /\ outcome = <<RateLimited(last_result.error.msg)>>)
        /\ (outcome # <<>> /\ outcome[1].kind = "RateLimited")
              => /\ Len(ta) = allowed
                 /\ AllRateLimited(ta, allowed)
                 /\ \A k \in 1..(allowed - 1) : ta[k].slept > 0
                 /\ ta[allowed].slept = 0
                 /\ last_result.error.variant = "ClaudeRateLimited"
                 /\ outcome = <<RateLimited(last_result.error.msg)>>

\* with max_retries = 2 the run has ended as RateLimited after 3 attempts and
\* 2 sleeps
C13_Witness ==
    /\ rate_limit.enabled
    /\ rate_limit.max_retries = 2
    /\ outcome # <<>>
    /\ outcome[1].kind = "RateLimited"
    /\ Len(attempts) = 3
    /\ Len(sleeps) = 2

\* C14: a failure of the client that is not rate-limited ends the run as
\* Failed in the step that receives it: the failed attempt is the last call
\* of the run and no sleep follows it; a turn whose first answer is such a
\* failure has made exactly one attempt and has not slept.
C14_ClientErrorFails ==
    /\ \A j \in 1..Len(attempts) :
          attempts[j].answer = "error"
             => /\ j = Len(attempts)
                /\ attempts[j].slept = 0
                /\ apc = "done"
                /\ outcome = <<Failed("Claude API error: " \o Display(last_result.error))>>
                /\ last_result.error.variant \in {"ClaudeTransient", "ClaudeApi", "Http"}
                /\ requests = Len(attempts)
    /\ \A t \in Turns :
          TurnAttempts(t)[1].answer = "error"
             => Len(TurnAttempts(t)) = 1 /\ \A k \in 1..Len(attempts) :
                                                attempts[k].turn = t => attempts[k].slept = 0

\* the request of the second turn failed with a transient server error
C14_Witness ==
    /\ apc = "done"
    /\ Len(attempts) = 2
    /\ attempts[1].answer = "ok"
    /\ attempts[2].answer = "error"
    /\ attempts[2].turn = 1
    /\ last_result.error.variant = "ClaudeTransient"
    /\ outcome = <<Failed("Claude API error: Claude API transient error: Server error (529): overloaded")>>

\* the text blocks of a content, each followed by the next after a newline
RECURSIVE SummaryOf(_)
SummaryOf(content) ==
    IF content = <<>> THEN ""
    ELSE LET n == Len(content)
             before == SubSeq(content, 1, n - 1)
         IN  IF content[n].type # "text" THEN SummaryOf(before)
             ELSE IF \A j \in 1..(n - 1) : before[j].type # "text" THEN content[n].text
             ELSE SummaryOf(before) \o "\n" \o content[n].text

\* C15: a response whose stop indicator is end_turn, in whatever turn it
\* arrives, ends the run as Completed, the summary being the text blocks of
\* that response alone, in order, joined by a newline; no tool is executed
\* for that response.
C15_EndTurnCompletes ==
    (last_result.ok /\ StopReason(last_result.response) = "end_turn")
       => /\ apc = "done"
          /\ outcome = <<Completed(SummaryOf(last_result.response.content))>>
          /\ \A j \in 1..Len(tool_calls) : tool_calls[j].turn # turn

\* The part of C15 that holds: when adding the usage of the end_turn response
\* has not panicked, the run has returned Completed with that summary and
\* no tool has been executed for the response.
EndTurnCompletesUnlessOverflow ==
    (last_result.ok /\ StopReason(last_result.response) = "end_turn" /\ apc # "panicked")
       => /\ apc = "done"
          /\ outcome = <<Completed(SummaryOf(last_result.response.content))>>
          /\ outcome = <<Completed("Fixed\nthe bug")>>
          /\ \A j \in 1..Len(tool_calls) : tool_calls[j].turn # turn

\* the end_turn response of a second turn has made the run panic
EndTurnPanicked ==
    /\ apc = "panicked"
    /\ last_result.ok
    /\ StopReason(last_result.response) = "end_turn"
    /\ outcome = <<>>

\* the tool_use blocks of a content
ToolUses(content) == SelectSeq(content, LAMBDA b : b.type = "tool_use")
\* the tool-result blocks a conversation holds for the tool_use block `id`
ResultsFor(msgs, id) ==
    {b \in UNION {SeqSet(msgs[j].content.blocks) : j \in 1..Len(msgs)} :
        b.type = "tool_result" /\ b.id = id}

\* C16: a call of a tool the registry does not hold does not end the run; it
\* yields one tool-result block with the id of the call, flagged as an
\* error; the calls that follow it in the same response are still made, and
\* once they are made the loop goes on to the next turn (unless one of them
\* is a clarification request, which ends the run as ClarificationNeeded).
C16_UnknownToolContinues ==
    \A j \in 1..Len(tool_calls) :
       LET c == tool_calls[j]
       IN  c.name \notin ToolNames
           => \/ /\ apc = "tools"
                 /\ turn = c.turn
                 /\ outcome = <<>>
                 /\ block > 0
                 /\ \E k \in 1..Len(tool_results) :
                       tool_results[k].id = c.id /\ tool_results[k].is_error = "true"
              \/ /\ apc = "done"
                 /\ turn = c.turn
                 /\ j < Len(tool_calls)
                 /\ tool_calls[Len(tool_calls)].name = "ask_clarification"
                 /\ outcome[1].kind = "ClarificationNeeded"
              \/ /\ turn > c.turn
                 /\ Cardinality(ResultsFor(messages, c.id)) = 1
                 /\ \A b \in ResultsFor(messages, c.id) : b.is_error = "true"
                 /\ LET asked == ToolUses(messages[2 * c.turn + 2].content.blocks)
                        given == messages[2 * c.turn + 3].content.blocks
                    IN  /\ Len(given) = Len(asked)
                        /\ \A k \in 1..Len(asked) :
                              /\ given[k].id = asked[k].id
                              /\ \E i \in 1..Len(tool_calls) :
                                    tool_calls[i] = ToolCall(c.turn, asked[k].id, asked[k].name)

\* the unknown tool run_shell was called in the first turn, read_file was
\* called after it, and the loop is at the head of its second turn
C16_Witness ==
    /\ apc = "turn"
    /\ turn = 1
    /\ tool_calls = <<ToolCall(0, "tu1", "run_shell"), ToolCall(0, "tu2", "read_file")>>
    /\ messages[3].content.blocks[1] =
          ToolResult("tu1", "Internal error: Agent error: Unknown tool: run_shell", "true")

\* a location lies in the workspace
InWorkspace(path) == starts_with(path, WorkspaceRoot)

\* C17: the guard rejects every requested path that resolves outside the
\* workspace root (through ".." or a symbolic link; the parent is resolved
\* when the target does not exist) and accepts every one that resolves
\* inside, returning the resolved path, which lies under the root.
C17_GuardExact ==
    (fsCall.guard.called /\ fsCall.real.err = "none")
       => /\ ~InWorkspace(fsCall.real.path) => ~fsCall.guard.ok
          /\ InWorkspace(fsCall.real.path)
                => /\ fsCall.guard.ok
                   /\ fsCall.guard.path = fsCall.real.path
                   /\ InWorkspace(fsCall.guard.path)

\* The part of C17 that holds: the path the guard returns when it accepts
\* lies under the root (as a path; it may name a symbolic link that leads
\* out of the workspace).
GuardReturnsPathUnderRoot ==
    (fsCall.guard.called /\ fsCall.guard.ok) => InWorkspace(fsCall.guard.path)

\* C18: a path the guard rejects as lying outside the workspace root is
\* rejected before anything is changed: no directory and no file has been
\* created by the execution.
C18_RejectedBeforeMutation ==
    (fsCall.guard.called /\ ~fsCall.guard.ok /\ fsCall.guard.reason = "Path traversal detected")
       => fsCall.accesses = {}

\* C19: every file tool has its path checked by the guard before it accesses
\* the filesystem, and no tool execution reads, lists, searches, creates,
\* writes or deletes a location outside the workspace root.
C19_ToolsConfined ==
    /\ fsCall.accesses # {} => fsCall.guard.called
    /\ \A a \in fsCall.accesses : InWorkspace(a.at)

\* C20: the argument guard refuses exactly the branch names that begin with
\* "-"; an operation called with a refused name fails without a single call
\* of libgit2 and leaves the clone and origin as they were, and an operation
\* called with any other name goes on to open the repository.
C20_BranchNameGuard ==
    /\ \A name \in BranchNames :
          validate_branch_name(name) = ~(name # <<>> /\ Head(name) = "-")
    /\ gitCall.op # "none"
          => IF gitCall.name # <<>> /\ Head(gitCall.name) = "-"
             THEN ~gitCall.ok /\ gitCall.calls = <<>> /\ ~gitCall.changed
             ELSE gitCall.calls # <<>> /\ Head(gitCall.calls) = "open"

\* a push of the branch "-a" was refused after the branch "a-" had been
\* created
C20_Witness ==
    /\ gitCall.op = "push"
    /\ gitCall.name = <<"-", "a">>
    /\ ~gitCall.ok
    /\ gitCall.calls = <<>>
    /\ <<"a", "-">> \in git_repo.local
    /\ git_repo.head = <<"a", "-">>

\* the calls of execute_tool made in the turn t, in order
TurnCalls(t) == SelectSeq(tool_calls, LAMBDA c : c.turn = t)
\* the tool_use blocks of the response of turn t, whose assistant message the
\* conversation holds once a tool of it is executed
TurnToolUses(t) == ToolUses(messages[2 * t + 2].content.blocks)
\* TRUE iff executing the tool_use block b returns ClarificationNeeded
AsksClarification(b) ==
    ToolOutcome("ClarificationNeeded", b.input) \in execute_tool(b.name, b.input)

\* The state of a run in which every clarification request has ended the run
\* at once, and ClarificationNeeded was returned in no other way.
ClarificationShortCircuits ==
    /\ \A j \in 1..Len(tool_calls) :
          LET c == tool_calls[j]
              uses == TurnToolUses(c.turn)
              calls == TurnCalls(c.turn)
              b == uses[Len(SelectSeq(SubSeq(tool_calls, 1, j), LAMBDA d : d.turn = c.turn))]
          IN  /\ b.id = c.id
              /\ AsksClarification(b)
                    => /\ j = Len(tool_calls)
                       /\ apc = "done"
                       /\ outcome = <<ClarificationNeeded(b.input)>>
                       /\ turn = c.turn
                       /\ Len(messages) = 2 * turn + 2
                       /\ messages[Len(messages)].role = "assistant"
                       /\ tool_calls[j].id # uses[Len(uses)].id => Len(calls) < Len(uses)
                       /\ requests = Len(attempts)
                       /\ attempts[Len(attempts)] = Attempt(turn, "ok", 0)
    /\ (outcome # <<>> /\ outcome[1].kind = "ClarificationNeeded")
          => /\ tool_calls # <<>>
             /\ tool_calls[Len(tool_calls)].name = "ask_clarification"

\* C23: when a tool execution of a tool_use turn returns
\* ClarificationNeeded(q), the run ends at once as ClarificationNeeded(q): the
\* call is the last tool call of the run, the later tool_use blocks of the
\* response are not executed, the assistant message stays the last message
\* of the conversation (no tool-result message is appended), and no further
\* request is sent.  ClarificationNeeded is returned in no other way.
C23_ClarificationShortCircuits == []ClarificationShortCircuits

\* in the second turn ask_clarification asked "Which branch?": the run has
\* ended with that question, write_file (the next block of the response) has
\* not been called, and the assistant message is the last of the conversation
C23_Witness ==
    /\ outcome = <<ClarificationNeeded("Which branch?")>>
    /\ turn = 1
    /\ Len(tool_calls) >= 2
    /\ tool_calls[Len(tool_calls)] = ToolCall(1, "tu3", "ask_clarification")
    /\ Len(messages) = 4
    /\ messages[4].role = "assistant"
    /\ Len(ToolUses(messages[4].content.blocks)) = 2
    /\ requests = 2

\* C24: when a backoff sleep is over the cancellation predicate is looked at
\* again.  If it is true the run ends as Cancelled and the rate-limited
\* request is never sent again; if it is false the request is sent again as
\* it was (same turn, same conversation).
C24_BackoffRechecksCancellation ==
    /\ [][(apc = "sleep" /\ apc' # "sleep")
            => IF is_cancelled
               THEN /\ apc' = "done"
                    /\ outcome' = <<Cancelled>>
                    /\ requests' = requests
               ELSE /\ apc' = "send"
                    /\ outcome' = <<>>
                    /\ turn' = turn
                    /\ messages' = messages
                    /\ requests' = requests]_vars
    /\ [][(apc = "send" /\ retries > 0 /\ requests' # requests)
            => /\ requests' = requests + 1
               /\ attempts'[Len(attempts')].turn = attempts[Len(attempts)].turn
               /\ Len(messages) = 2 * turn + 1]_vars
    /\ [][(apc = "done" /\ outcome = <<Cancelled>>) => requests' = requests]_vars

\* after the first backoff the request was sent again and rate-limited
\* again; after the second backoff the run was cancelled, two requests
\* having been sent
C24_Witness ==
    /\ apc = "done"
    /\ outcome = <<Cancelled>>
    /\ Len(attempts) = 2
    /\ AllRateLimited(attempts, 2)
    /\ sleeps = <<15, 30>>
    /\ requests = 2
    /\ turn = 0

\* C25: cancellation does not preempt tool execution.  While the tool calls
\* of a response are being executed the run ends only through a
\* clarification request, whatever the cancellation predicate says; when the
\* loop leaves the response every tool_use block of it has been executed; and
\* Cancelled is returned only from the head of a turn or after a backoff
\* sleep, the predicate being true there.
C25_CancellationNeverPreemptsTools ==
    /\ [][apc = "tools"
            => \/ apc' \in {"tools", "turn"} /\ outcome' = <<>>
               \/ /\ apc' = "done"
                  /\ Len(outcome') = 1
                  /\ outcome'[1].kind = "ClarificationNeeded"]_vars
    /\ [][(apc = "tools" /\ apc' = "turn")
            => Len(SelectSeq(tool_calls', LAMBDA c : c.turn = turn))
                  = Len(ToolUses(response.content))]_vars
    /\ [][(outcome = <<>> /\ outcome' = <<Cancelled>>)
            => apc \in {"turn", "sleep"} /\ is_cancelled]_vars

\* the cancellation predicate is true between the two tool calls of the
\* first response: run_shell has been executed, read_file is next, and the
\* run has not ended
C25_Witness ==
    /\ apc = "tools"
    /\ is_cancelled
    /\ tool_calls = <<ToolCall(0, "tu1", "run_shell")>>
    /\ response.content[block].id = "tu2"
    /\ outcome = <<>>

\* the tool-result blocks collected for the response of turn t: those of the
\* user message that follows the assistant message once the turn is over,
\* those collected so far while it lasts
TurnResults(t) == IF t < turn THEN messages[2 * t + 3].content.blocks ELSE tool_results
\* position of the j-th tool call of the run among the calls of its turn
CallIndex(j) ==
    Len(SelectSeq(SubSeq(tool_calls, 1, j), LAMBDA d : d.turn = tool_calls[j].turn))

\* The state of a run in which every executed tool call that did not ask for
\* clarification has its tool-result block and no tool outcome has made the
\* run fail.
NoToolOutcomeFails ==
    /\ \A j \in 1..Len(tool_calls) :
          LET c == tool_calls[j]
              k == CallIndex(j)
              results == TurnResults(c.turn)
          IN  ~AsksClarification(TurnToolUses(c.turn)[k])
                 => /\ k <= Len(results)
                    /\ results[k].type = "tool_result"
                    /\ results[k].id = c.id
                    /\ results[k].text # "output" => results[k].is_error = "true"
                    /\ c.name \notin ToolNames
                          => results[k] = ToolResult(c.id,
                                 "Internal error: Agent error: Unknown tool: " \o c.name, "true")
                    /\ (outcome # <<>> /\ outcome[1].kind = "Failed") => c.turn < turn
    /\ (outcome # <<>> /\ outcome[1].kind = "Failed")
          => \/ /\ ~last_result.ok
                /\ last_result.error.variant # "ClaudeRateLimited"
                /\ outcome[1].text = "Claude API error: " \o Display(last_result.error)
             \/ /\ last_result.ok
                /\ StopReason(last_result.response) \notin {"end_turn", "tool_use", "max_tokens"}
                /\ outcome[1].text
                      = "Unexpected stop reason: " \o StopReason(last_result.response)

\* C26: no tool outcome ends the run as Failed.  Every executed tool call
\* that did not ask for clarification has its tool-result block, with the id
\* of the call; the block is flagged as an error unless the tool succeeded
\* (a tool-reported error, an internal error and an unknown tool name are all
\* flagged), and the run has not failed in the turn of the call.  A run that
\* ended as Failed ended on a client error other than rate-limited or on an
\* unexpected stop indicator, with the matching message.
C26_NoToolOutcomeFails == []NoToolOutcomeFails

\* in the first turn the unknown tool run_shell and then read_file, which
\* failed with an I/O error, were called: both results are flagged and the
\* loop is at the head of its second turn
C26_Witness ==
    /\ apc = "turn"
    /\ turn = 1
    /\ outcome = <<>>
    /\ Len(tool_calls) = 2
    /\ messages[3].content.blocks
          = <<ToolResult("tu1", "Internal error: Agent error: Unknown tool: run_shell", "true"),
              ToolResult("tu2", "Internal error: I/O error: disk", "true")>>

\* the flag the code gives the tool result of a call: none for the content of
\* a success, Some(true) for every other content
FlagOf(result) == IF result.text = "output" THEN "none" ELSE "true"

\* C27: when the tool calls of a tool_use response have all been executed and
\* none asked for clarification, the conversation has grown by exactly two
\* messages since the request: the assistant message with the content of the
\* response, and after it one user message with exactly one tool-result
\* block per tool_use block of the response, in the same order, each with
\* the id of its tool_use block; the result of a success carries no error
\* flag and every other result carries it.
C27_OneToolResultMessage ==
    (/\ last_result.ok
     /\ StopReason(last_result.response) = "tool_use"
     /\ apc \in {"turn", "done"}
     /\ ~(outcome # <<>> /\ outcome[1].kind = "ClarificationNeeded"))
       => LET r == last_result.response
              t == attempts[Len(attempts)].turn
              uses == ToolUses(r.content)
              given == messages[2 * t + 3].content
          IN  /\ turn = t + 1
              /\ Len(messages) = 2 * t + 3
              /\ messages[2 * t + 2] = Message("assistant", Blocks(r.content))
              /\ messages[2 * t + 3].role = "user"
              /\ given.is_blocks
              /\ Len(given.blocks) = Len(uses)
              /\ \A k \in 1..Len(uses) :
                    /\ given.blocks[k].type = "tool_result"
                    /\ given.blocks[k].id = uses[k].id
                    /\ given.blocks[k].is_error = FlagOf(given.blocks[k])
                    /\ given.blocks[k].text = "output"
                          => ToolOutcome("Success", "output")
                                \in execute_tool(uses[k].name, uses[k].input)
              /\ Len(TurnCalls(t)) = Len(uses)

\* the second turn's response asked for run_shell and read_file; read_file
\* succeeded: the user message appended after the assistant message holds
\* the flagged result of run_shell and the unflagged result of read_file
C27_Witness ==
    /\ apc = "turn"
    /\ turn = 2
    /\ Len(messages) = 5
    /\ messages[4].role = "assistant"
    /\ messages[5]
          = Message("user",
                    Blocks(<<ToolResult("tu1",
                                "Internal error: Agent error: Unknown tool: run_shell", "true"),
                             ToolResult("tu2", "output", "none")>>))

\* C28: a response with stop indicator max_tokens makes the loop append the
\* partial assistant message and after it a user message asking to
\* continue, execute no tool, and go on to the next turn; the run does not
\* end by that response (only the head of the next turn may end it, at the
\* turn limit or by cancellation).
C28_MaxTokensContinues ==
    (last_result.ok /\ StopReason(last_result.response) = "max_tokens")
       => LET t == attempts[Len(attempts)].turn
          IN  /\ apc \in {"turn", "send", "done"}
              /\ turn = t + 1
              /\ Len(messages) = 2 * t + 3
              /\ messages[2 * t + 2]
                    = Message("assistant", Blocks(last_result.response.content))
              /\ messages[2 * t + 3] = Message("user", TextContent("Please continue."))
              /\ TurnCalls(t) = <<>>
              /\ outcome \in {<<>>, <<Cancelled>>, <<TurnLimitReached>>}

\* The part of C28 that holds: the same, when adding the usage of the
\* max_tokens response has not panicked.
MaxTokensContinuesUnlessOverflow ==
    (last_result.ok /\ StopReason(last_result.response) = "max_tokens" /\ apc # "panicked")
       => LET t == attempts[Len(attempts)].turn
          IN  /\ apc \in {"turn", "send", "done"}
              /\ turn = t + 1
              /\ Len(messages) = 2 * t + 3
              /\ messages[2 * t + 2]
                    = Message("assistant", Blocks(last_result.response.content))
              /\ messages[2 * t + 3] = Message("user", TextContent("Please continue."))
              /\ TurnCalls(t) = <<>>
              /\ outcome \in {<<>>, <<Cancelled>>, <<TurnLimitReached>>}

\* a max_tokens response was appended with the request to continue and the
\* loop is at the head of the second turn
MaxTokensContinued ==
    /\ apc = "turn"
    /\ turn = 1
    /\ outcome = <<>>
    /\ messages[2] = Message("assistant", Blocks(<<Text("partial")>>))
    /\ messages[3] = Message("user", TextContent("Please continue."))

\* the max_tokens response of a second turn has made the run panic
MaxTokensPanicked ==
    /\ apc = "panicked"
    /\ last_result.ok
    /\ StopReason(last_result.response) = "max_tokens"
    /\ turn = 1
    /\ Len(messages) = 3
    /\ outcome = <<>>

\* C29: a response whose stop indicator is absent, or is none of end_turn,
\* tool_use and max_tokens, ends the run as Failed with a message that names
\* the indicator ("unknown" when it is absent); nothing is appended to the
\* conversation and no tool is executed for the response.
C29_UnexpectedStopFails ==
    (last_result.ok
     /\ StopReason(last_result.response) \notin {"end_turn", "tool_use", "max_tokens"})
       => LET t == attempts[Len(attempts)].turn
          IN  /\ apc = "done"
              /\ outcome = <<Failed("Unexpected stop reason: "
                                      \o (IF last_result.response.stop_reason = NoString
                                          THEN "unknown"
                                          ELSE last_result.response.stop_reason))>>
              /\ turn = t
              /\ Len(messages) = 2 * t + 1
              /\ TurnCalls(t) = <<>>

\* The part of C29 that holds: the same, when adding the usage of the
\* response has not panicked.
UnexpectedStopFailsUnlessOverflow ==
    (last_result.ok
     /\ StopReason(last_result.response) \notin {"end_turn", "tool_use", "max_tokens"}
     /\ apc # "panicked")
       => LET t == attempts[Len(attempts)].turn
          IN  /\ apc = "done"
              /\ outcome = <<Failed("Unexpected stop reason: "
                                      \o (IF last_result.response.stop_reason = NoString
                                          THEN "unknown"
                                          ELSE last_result.response.stop_reason))>>
              /\ turn = t
              /\ Len(messages) = 2 * t + 1
              /\ TurnCalls(t) = <<>>

\* a response without stop indicator has ended the run as Failed, naming
\* "unknown"; a response with stop_sequence has, naming it
UnexpectedStopFailed ==
    /\ apc = "done"
    /\ last_result.ok
    /\ \/ /\ last_result.response.stop_reason = NoString
          /\ outcome = <<Failed("Unexpected stop reason: unknown")>>
       \/ /\ last_result.response.stop_reason = "stop_sequence"
          /\ outcome = <<Failed("Unexpected stop reason: stop_sequence")>>

\* the response without stop indicator of a second turn has made the run
\* panic
UnexpectedStopPanicked ==
    /\ apc = "panicked"
    /\ last_result.ok
    /\ last_result.response.stop_reason = NoString
    /\ outcome = <<>>

\* the attempts of the turn t that were answered with rate-limited
RateLimitedAttempts(t) == SelectSeq(TurnAttempts(t), LAMBDA a : a.answer = "rate_limited")

\* C30: rate-limit retries are counted per turn.  The retry count is 0 when
\* the request of a turn is first sent, whatever earlier turns met; while a
\* turn's request is being sent or awaited the count is the number of
\* rate-limited answers of that turn alone; a turn gives up only after
\* max_retries + 1 rate-limited answers of its own; and between the attempts
\* of one turn neither the conversation nor the turn changes, so every retry
\* resends the same request.
C30_RetriesCountedPerTurn ==
    /\ [][(apc = "turn" /\ apc' = "send") => retries' = 0]_vars
    /\ [][(apc = "send" /\ apc' = "sleep")
             => /\ retries' = retries + 1
                /\ retries < rate_limit.max_retries
                /\ UNCHANGED <<messages, turn>>]_vars
    /\ [][apc = "sleep" => UNCHANGED <<messages, turn, retries>>]_vars
    /\ [](apc \in {"send", "sleep"}
             => /\ retries = Len(TurnAttempts(turn))
                /\ retries = Len(RateLimitedAttempts(turn))
                /\ Len(messages) = 2 * turn + 1)
    /\ []((outcome # <<>> /\ outcome[1].kind = "RateLimited" /\ rate_limit.enabled)
             => /\ retries = rate_limit.max_retries
                /\ Len(RateLimitedAttempts(turn)) = rate_limit.max_retries + 1)

\* the second turn has used all its retries (max_retries = 1: two
\* rate-limited answers, one sleep) although the first turn was rate-limited
\* once before it got its response
C30_Witness ==
    /\ rate_limit.enabled
    /\ rate_limit.max_retries = 1
    /\ turn = 1
    /\ apc = "done"
    /\ outcome # <<>>
    /\ outcome[1].kind = "RateLimited"
    /\ attempts = <<Attempt(0, "rate_limited", 15), Attempt(0, "ok", 0),
                    Attempt(1, "rate_limited", 15), Attempt(1, "rate_limited", 0)>>
    /\ sleeps = <<15, 15>>
    /\ Len(messages) = 3

\* the positions in the history of the workflow's calls that lie after the
\* agent run and are a user-visible status action
StatusActions == {"post_comment", "add_label", "remove_label"}
StatusActionsAfterRun ==
    {j \in 1..Len(wf_calls) :
        /\ wf_calls[j].op \in StatusActions
        /\ \E i \in 1..(j - 1) : wf_calls[i].op = "run"}

\* C21: when the agent run has returned an outcome other than Completed to
\* resolve_issue or respond_to_review, the workflow has, by the time it
\* returns, attempted at least one status action after the run: it has
\* posted a comment or changed a label (whether or not the platform
\* accepted the call).
C21_StatusActionForEveryOutcome ==
    (wf_returned # <<>> /\ agent_result # <<>> /\ agent_result[1].kind # "Completed")
       => StatusActionsAfterRun # {}

\* resolve_issue has returned after a cancelled run whose reason had been
\* cleared before it was read: no comment was posted, the removal of the
\* working label is the one status action
C21_Witness ==
    /\ wf.kind = "issue"
    /\ wf_returned = <<WfOk(WorkflowOutcome("Failed", "Cancelled"))>>
    /\ agent_result = <<Cancelled>>
    /\ \E j \in StatusActionsAfterRun : wf_calls[j].op = "remove_label"
    /\ \A j \in StatusActionsAfterRun : wf_calls[j].op # "post_comment"

\* every outcome other than Completed reaches the return of each workflow
\* that can receive it
IssueReturnedAfter(kind) ==
    wf.kind = "issue" /\ wf_returned # <<>> /\ agent_result # <<>> /\ agent_result[1].kind = kind
ReviewReturnedAfter(kind) ==
    wf.kind = "review" /\ wf_returned # <<>> /\ agent_result # <<>> /\ agent_result[1].kind = kind

\* respond_to_review never receives Cancelled: its callback answers false
ReviewNeverCancelled == wf.kind = "review" => agent_result # <<Cancelled>>

\* the workflow has set up its workspace
WorkspaceSetUp ==
    \E j \in 1..Len(wf_calls) :
       wf_calls[j].op \in {"setup_for_issue", "setup_for_review"} /\ wf_calls[j].ok

\* C22: once a workflow has set up its workspace, the workspace directory
\* is gone by the time the workflow returns, with Ok or with Err.
C22_WorkspaceRemovedOnReturn ==
    (wf_returned # <<>> /\ WorkspaceSetUp) => workspace_dir = "absent"

\* a workflow has returned Err after the agent run without having called
\* cleanup, and the directory is still there
ReturnedErrWithoutCleanup ==
    /\ wf_returned # <<>>
    /\ ~wf_returned[1].ok
    /\ wf_returned[1].error \in {"finalize", "create_pull_request", "get_access_token"}
    /\ agent_result = <<Completed("summary")>>
    /\ WorkspaceSetUp
    /\ \A j \in 1..Len(wf_calls) : wf_calls[j].op # "cleanup"
    /\ workspace_dir = "present"

\* The part of C22 that holds: a workflow that returns Ok after having set
\* up its workspace has called cleanup, and the directory is gone when that
\* call succeeded.
CleanupCalledBeforeOk ==
    (wf_returned # <<>> /\ wf_returned[1].ok /\ WorkspaceSetUp)
       => /\ wf_calls[Len(wf_calls)].op = "cleanup"
          /\ wf_calls[Len(wf_calls)].ok => workspace_dir = "absent"

\* the failure class of what send_message returned
ReturnedVariant == client_returned[1].error.variant

\* C31: send_message classifies failures exactly so: a failed send is
\* Transient; the status 429 is RateLimited; every status from 500 to 599
\* (529, overloaded, among them) is Transient; every other status that is
\* not a success is the permanent Api error.  A status that is not a success
\* never yields a response, and gets exactly one of the three classes.
C31_FailureClassification ==
    client_returned # <<>>
       => /\ ~http.sent => (~client_returned[1].ok /\ ReturnedVariant = "ClaudeTransient")
          /\ (http.sent /\ http.status = 429)
                => (~client_returned[1].ok /\ ReturnedVariant = "ClaudeRateLimited")
          /\ (http.sent /\ http.status \in 500..599)
                => (~client_returned[1].ok /\ ReturnedVariant = "ClaudeTransient")
          /\ (http.sent /\ http.status \notin 200..299
                /\ http.status # 429 /\ http.status \notin 500..599)
                => (~client_returned[1].ok /\ ReturnedVariant = "ClaudeApi")
          /\ (http.sent /\ http.status \notin 200..299)
                => ReturnedVariant \in {"ClaudeRateLimited", "ClaudeTransient", "ClaudeApi"}
          /\ (http.sent /\ http.status \in 200..299)
                => ReturnedVariant \notin {"ClaudeRateLimited", "ClaudeTransient", "ClaudeApi"}

\* the status 503 with the body "overloaded" has been returned as Transient
C31_Witness ==
    /\ cpc = "returned"
    /\ http = HttpExchange(TRUE, 503, "overloaded", FALSE)
    /\ client_returned
          = <<Err(AppError("ClaudeTransient", "Server error (503): overloaded"))>>

\* other classes reached: 429, 529, 404, 302 and a failed send
ClassifiedStatuses ==
    /\ cpc = "returned"
    /\ \/ http.status = 429 /\ ReturnedVariant = "ClaudeRateLimited"
       \/ http.status = 529 /\ ReturnedVariant = "ClaudeTransient"
       \/ http.status = 404 /\ ReturnedVariant = "ClaudeApi"
       \/ http.status = 302 /\ ReturnedVariant = "ClaudeApi"
       \/ ~http.sent /\ ReturnedVariant = "ClaudeTransient"

\* the comments the workflow posted after the agent run
CommentsAfterRun == {wf_calls[j].arg : j \in {i \in StatusActionsAfterRun :
                                                 wf_calls[i].op = "post_comment"}}

\* C32: when the agent run of resolve_issue has ended as Cancelled, the
\* workflow acts on the reason recorded for that cancellation: for
\* LabelRemoved it posts the comment that the trigger label was removed and
\* returns "Cancelled (label removed)"; for IssueClosed it posts no comment
\* and returns "Cancelled (issue closed)"; it returns the plain "Cancelled"
\* only when no reason was recorded.
C32_ActsOnRecordedReason ==
    (wf.kind = "issue" /\ wf_returned # <<>> /\ agent_result = <<Cancelled>>)
       => /\ stopped_by = <<"LabelRemoved">>
                => /\ "stopped" \in CommentsAfterRun
                   /\ wf_returned
                         = <<WfOk(WorkflowOutcome("Failed", "Cancelled (label removed)"))>>
          /\ stopped_by = <<"IssueClosed">>
                => /\ CommentsAfterRun = {}
                   /\ wf_returned
                         = <<WfOk(WorkflowOutcome("Failed", "Cancelled (issue closed)"))>>
          /\ wf_returned = <<WfOk(WorkflowOutcome("Failed", "Cancelled"))>>
                => stopped_by = <<>>

\* the label was removed during the run and nothing else happened: the run
\* ended as Cancelled, the workflow read no reason, posted no comment and
\* returned the plain "Cancelled"
LabelRemovedReasonLost ==
    /\ wf.kind = "issue"
    /\ agent_result = <<Cancelled>>
    /\ stopped_by = <<"LabelRemoved">>
    /\ state_cancelled = <<>>
    /\ CommentsAfterRun = {}
    /\ wf_returned = <<WfOk(WorkflowOutcome("Failed", "Cancelled"))>>

\* What holds instead: the workflow acts on the entry it finds after it has
\* cleared the map, which is there only when cancel_issue was called again
\* between the clearing and the reading.
ActsOnReasonRead ==
    (wf.kind = "issue" /\ wf_returned # <<>> /\ agent_result = <<Cancelled>>)
       => /\ wf_returned = <<WfOk(WorkflowOutcome("Failed", CancelledError(state_cancelled)))>>
          /\ ("stopped" \in CommentsAfterRun) = (state_cancelled = <<"LabelRemoved">>)
          /\ \E j \in 2..Len(wf_calls) :
                /\ wf_calls[j].op = "get_cancellation_reason"
                /\ wf_calls[j].arg = CancelledError(state_cancelled)
                /\ wf_calls[j - 1].op = "clear_cancellation"

\* C37: the in-flight registry holds the issue of resolve_issue only while
\* resolve_issue is executing: when resolve_issue has returned, with Ok or
\* with Err, the issue is no longer registered.
C37_UnregisteredOnReturn ==
    (wf.kind = "issue" /\ wf_returned # <<>>) => ~in_flight

\* resolve_issue has returned Err from a call made with `?` and the issue is
\* still registered as in flight
ReturnedErrStillInFlight ==
    /\ wf.kind = "issue"
    /\ wf_returned # <<>>
    /\ ~wf_returned[1].ok
    /\ wf_returned[1].error
          \in {"get_issue", "get_access_token", "setup_for_issue", "finalize",
               "create_pull_request"}
    /\ in_flight
    /\ \A j \in 1..Len(wf_calls) : wf_calls[j].op # "unregister_in_flight"

\* The part of C37 that holds: the issue is registered while resolve_issue
\* executes past its first step, and it is unregistered whenever
\* resolve_issue returns Ok.
UnregisteredOnOk ==
    /\ (wf.kind = "issue" /\ wpc \notin {"idle", "begin", "returned", "panicked"}) => in_flight
    /\ (wf.kind = "issue" /\ wf_returned # <<>> /\ wf_returned[1].ok) => ~in_flight

\* the ResolveIssue tasks that the step hands to the processor
StartedIssueTasks == {t \in executing' \ executing : t.kind = "ResolveIssue"}

\* C33: a cancellation recorded for an issue affects only the work for that
\* issue that was pending or in flight when the event was handled.  The
\* pending tasks of the issue are removed by the same event, so a task of
\* the issue that take_next returns was enqueued after every cancel event
\* handled so far: when it starts, no cancellation flag of its issue is set
\* (the first check of the agent loop would otherwise end it as Cancelled
\* without a new cancel event).
C33_NoStaleCancellation ==
    [][\A t \in StartedIssueTasks : issue_key(t.repo, t.num) \notin cancelled]_vars

\* a task of an issue is executing that was enqueued after the one cancel
\* event of that issue and has not been cancelled since, and the flag of the
\* issue is set
StaleCancellationAtStart ==
    /\ pc = "exec"
    /\ executing = {ResolveIssue(1, "A", 1)}
    /\ issue_key("A", 1) \in cancelled
    /\ taken = <<1>>
    /\ removed = {}
    /\ lastOp = NoOp
    /\ nextId = 2

\* the cancellation predicate is true before and after the step
StaysCancelled == is_cancelled /\ is_cancelled'

\* Once the predicate is true no new request is started: a cancellation
\* check (at the head of a turn, after a backoff sleep) made while it is true
\* ends the run without a request, and every request is preceded by a check
\* of its own, so only a request whose check was passed before the predicate
\* became true is still sent.
NoNewRequestOnceCancelled ==
    /\ [][(StaysCancelled /\ apc \in {"turn", "sleep"} /\ apc' # apc)
             => (apc' = "done" /\ requests' = requests)]_vars
    /\ [][requests' # requests => (apc = "send" /\ apc' # "send")]_vars
    /\ [][(apc \in {"turn", "sleep"} /\ apc' = "send") => ~is_cancelled]_vars

\* C34: once the cancellation predicate is true and stays true the agent
\* loop starts no new request; at most the request in flight completes and
\* the tools of its response run, and the run then ends as Cancelled, unless
\* the response in flight itself produced a terminal outcome (while the
\* request is processed or while its tools are executed).
C34_CancelledStopsRequests ==
    /\ NoNewRequestOnceCancelled
    /\ [][(StaysCancelled /\ apc \notin {"done", "panicked"} /\ apc' \in {"done", "panicked"})
             => \/ outcome' = <<Cancelled>>
                \/ apc \in {"send", "tools"} /\ apc' = "done" /\ outcome' # <<>>]_vars

\* the predicate became true while the request of the last allowed turn was
\* in flight; its tools ran, and the run has ended as TurnLimitReached
TurnLimitWhileCancelled ==
    /\ is_cancelled
    /\ apc = "done"
    /\ outcome = <<TurnLimitReached>>
    /\ max_turns = 1
    /\ turn = 1
    /\ requests = 1
    /\ tool_calls # <<>>

\* the predicate is true and the response in flight has made the run panic
PanickedWhileCancelled ==
    /\ is_cancelled
    /\ apc = "panicked"
    /\ outcome = <<>>

\* the ids of the tasks enqueued so far
EnqueuedIds == 1..(nextId - 1)

\* the tasks the drain step of this transition returned
Returned == executing' \ executing

\* Every enqueued task is pending, removed or taken, and in one place only;
\* a pending task holds one position, under the key of its repository.
OnePlaceEach ==
    /\ Ids(Pending(queues)) \cup removed \cup SeqSet(taken) = EnqueuedIds
    /\ Ids(Pending(queues)) \cap removed = {}
    /\ Ids(Pending(queues)) \cap SeqSet(taken) = {}
    /\ removed \cap SeqSet(taken) = {}
    /\ \A k \in DOMAIN queues : \A i, j \in 1..Len(queues[k]) :
          /\ queues[k][i].repo = k
          /\ queues[k][i].id = queues[k][j].id => i = j
    /\ \A k, l \in DOMAIN queues :
          k # l => Ids(SeqSet(queues[k])) \cap Ids(SeqSet(queues[l])) = {}
    /\ \A i, j \in 1..Len(taken) : taken[i] = taken[j] => i = j
    /\ Ids(executing) \subseteq SeqSet(taken)

\* A step returns only a task that was pending, as it was pending, and records
\* it once; the tasks pending after a step were pending before it with the
\* same fields, but for the one task an enqueue adds.
ReturnedAsEnqueued ==
    /\ executing' = executing
        \/ \A t \in Returned :
              /\ t \in Pending(queues)
              /\ t \notin Pending(queues')
              /\ taken' = Append(taken, t.id)
    /\ queues' = queues
        \/ \A t \in Pending(queues') \ Pending(queues) :
              t.id = nextId /\ nextId' = nextId + 1

\* C35: task conservation: every enqueued task is in exactly one of three
\* places: pending at one position under the key it was enqueued with, removed
\* by cancel_issue, or returned by take_next once.  take_next returns no task
\* twice, no task that was not enqueued, and returns the task unmodified.
C35_TaskConservation == []OnePlaceEach /\ [][ReturnedAsEnqueued]_vars

\* both keys hold pending tasks, one task was removed by cancel_issue, and a
\* task returned by take_next is executing
C35_Witness ==
    /\ removed # {}
    /\ executing # {}
    /\ \E t \in Pending(queues) : TRUE
    /\ Ids(Pending(queues)) \cup removed \cup SeqSet(taken) = 1..MaxTasks

\* take_next answers None exactly when the map holds no task, and otherwise the
\* front of a sequence that is not empty.
NoneIffNothingPending ==
    /\ take_next_result(queues, iter) = NoTask <=> Pending(queues) = {}
    /\ FindRepo(queues, iter) # NoRepo =>
          /\ FindRepo(queues, iter) \in DOMAIN queues
          /\ queues[FindRepo(queues, iter)] # <<>>
          /\ take_next_result(queues, iter) \in Pending(queues)

\* The drain loop goes back to recv() only with nothing pending, and a drain
\* step that finds a task pending starts it.
DrainStopsWhenEmpty ==
    pc = "take" /\ pc' # "take" =>
        IF Pending(queues) = {}
        THEN pc' = "recv" /\ executing' = executing /\ taken' = taken
        ELSE pc' = "exec" /\ executing' # executing

\* C36: take_next returns None if and only if no repository key has a pending
\* task: a key whose sequence is empty is never chosen and never hides the
\* task of another key, so the drain loop of the processor stops only when
\* nothing is pending.
C36_NoneIffNothingPending == []NoneIffNothingPending /\ [][DrainStopsWhenEmpty]_vars

\* take_next returned the task of one key while the key that comes first in
\* the iteration order holds an empty sequence
C36_Witness ==
    /\ pc = "exec"
    /\ iter # <<>>
    /\ queues[iter[1]] = <<>>
    /\ removed # {}
    /\ \E t \in executing : t.repo # iter[1] /\ taken = <<t.id>>

\* The conversation starts with a user message, its roles alternate, and it
\* ends with a user message.
Alternates(msgs) ==
    /\ msgs # <<>>
    /\ \A j \in 1..Len(msgs) :
          msgs[j].role = (IF j % 2 = 1 THEN "user" ELSE "assistant")
    /\ Len(msgs) % 2 = 1

\* s is a prefix of t
IsPrefix(s, t) == Len(s) <= Len(t) /\ \A j \in 1..Len(s) : s[j] = t[j]

\* The conversation a request is built from (engine.rs 138-144: the request
\* clones `messages`; the retries of a turn send the same clone again).
RequestAlternates == apc \in {"send", "sleep"} => Alternates(messages)

\* No step of a run removes or rewrites a message.
AppendOnly == IsPrefix(messages, messages')

\* C38: in every request sent to the protocol client the conversation starts
\* with a user message, roles alternate user / assistant and the last message
\* is a user message; the conversation of a later request extends that of
\* every earlier request of the run, after any tool_use and max_tokens turns
\* and retries.
C38_ConversationAlternates == []RequestAlternates /\ [][AppendOnly]_vars

\* the request of the second turn is retried after a backoff: its conversation
\* is the initial message, the assistant's tool_use message and the tool results
C38_Witness ==
    /\ apc = "send"
    /\ turn = 1
    /\ retries > 0
    /\ Len(messages) = 3
    /\ messages[2].role = "assistant"
    /\ messages[3] # Message("user", TextContent("Please continue."))
    /\ tool_calls # <<>>

\* The task holds a guard of the cancellation registry.
HoldsCancelled(p) == \E g \in cancelled_guards : g.task = p

\* The guards are exclusive as an RwLock makes them, a waiting task holds the
\* lock it waits for no second time, and the processor holds the write guard
\* of the task queue only inside set_notifier and take_next: not while it waits
\* for a notification and not while the workflow of a task executes.
GuardsWellHeld ==
    /\ \A g, h \in cancelled_guards : g.mode = "write" => g = h
    /\ \A p \in Tasks : lpc[p] \in TaskQueueWaits => task_queue_guard # p
    /\ \A p \in Tasks : lpc[p] \in CancelledWaits => ~HoldsCancelled(p)
    /\ lpc["processor"] \notin {"set_notifier", "take_next"} =>
          task_queue_guard # "processor"

\* C39: no deadlock: under every interleaving of the webhook handlers (which
\* take the write lock of the task queue and, for close / unlabel events, the
\* write lock of the cancellation registry while still holding it), the
\* startup scan, the queue processor and the cancellation checks of the agent,
\* every lock acquisition eventually succeeds; the processor holds the lock of
\* the task queue only for the duration of take_next, never while a task
\* executes.
C39_NoDeadlock ==
    /\ []GuardsWellHeld
    /\ \A p \in Tasks :
          /\ (lpc[p] \in TaskQueueWaits) ~> (task_queue_guard = p)
          /\ (lpc[p] \in CancelledWaits) ~> HoldsCancelled(p)

\* a handler holds the write guard of the task queue and waits for the write
\* guard of the cancellation registry, which the agent's check holds for
\* reading; the other handler and the scan wait for the task queue while the
\* task executes
C39_Witness ==
    /\ \E p \in Handlers :
          /\ lpc[p] = "cancelled_wait"
          /\ task_queue_guard = p
          /\ lpc[CHOOSE q \in Handlers : q # p] \in TaskQueueWaits
    /\ lpc["scan"] = "scan_wait"
    /\ lpc["processor"] = "check"
    /\ HoldsCancelled("processor")

\* the workspace tree: what lies under the workspace root
WorkspaceTree(f) == [q \in {c \in DOMAIN f : InWorkspace(c)} |-> f[q]]

\* the step is a tool execution that returned Error
FailedToolRun == fsRuns' # fsRuns /\ fsCall'.output.kind = "Error"

\* C40: a file tool call that returns Error (a missing target, an existing
\* target for create_file, a path outside the workspace) leaves the workspace
\* tree unchanged: the failed call creates, modifies and removes no file and
\* no directory.
C40_FailedCallChangesNothing ==
    [][FailedToolRun => WorkspaceTree(fs') = WorkspaceTree(fs)]_vars

\* a tool execution returned Error on a path the guard accepted, and the guard
\* had created a directory in the workspace for it
FailedCallMadeDirectory ==
    /\ fsCall.output.kind = "Error"
    /\ fsCall.guard.called
    /\ fsCall.guard.ok
    /\ \E a \in fsCall.accesses : a.op = "mkdir" /\ InWorkspace(a.at)

\* What holds of a failed call: nothing that was in the workspace is modified
\* or removed, and what is new is a directory the guard created.
FailedCallOnlyMakesDirectories ==
    [][FailedToolRun =>
          /\ \A q \in DOMAIN WorkspaceTree(fs) :
                q \in DOMAIN fs' /\ fs'[q] = fs[q]
          /\ \A q \in DOMAIN WorkspaceTree(fs') \ DOMAIN WorkspaceTree(fs) :
                /\ fs'[q] = DirNode
                /\ Access("mkdir", q) \in fsCall'.accesses]_vars

\* Under LiveSpec some pending task is always eventually started (checked to
\* make sure the processor of LiveSpec is not simply stuck).
LiveProgress == (Pending(queues) # {}) ~> (executing # {})

====
